---- MODULE Spec2Model ----
(***************************************************************************)
(* Model of the spectral analysis engine (utils/scientific), of the        *)
(* ingestion of a file (utils/fileParser) and of the analysis page of the  *)
(* photoluminescence spectrum analysis system.                             *)
(*                                                                         *)
(* Numbers.  A JavaScript number is modelled as an exact rational <<n, d>> *)
(* in lowest terms with d > 0, extended with the three IEEE-754 special    *)
(* values the code can produce by dividing by zero:                        *)
(*     <<0, 0>> = NaN,   <<1, 0>> = +Infinity,   <<-1, 0>> = -Infinity.    *)
(* Rounding error of float64 and the sign of zero are not modelled.        *)
(***************************************************************************)
EXTENDS Integers, Sequences, FiniteSets, TLC

VARIABLES
    data,     \* the spectrum an engine function is applied to or the page
              \* has loaded; the rows of the file that is parsed
    call,     \* the engine function last applied, with its arguments
    ret,      \* what that call returned
    page      \* the state of the analysis page, when it is mounted

vars == <<data, call, ret, page>>

(***************************************************************************)
(* Bounds of the model.                                                    *)
(***************************************************************************)
MaxLen == 4          \* longest spectrum of the preprocessing specification
MaxDegree == 2       \* polynomial degrees are drawn from 0..MaxDegree
MaxDetectLen == 5    \* longest spectrum of the peak detection specification
MaxWindow == 4       \* window lengths of the smoothing filter are 1..MaxWindow
MaxFitLen == 3       \* longest spectrum of the curve fitting specification
MaxPeaks == 2        \* longest peak list of the curve fitting specification
MaxObserved == 3     \* longest sequence of the goodness-of-fit specification
MaxPageLen == 3      \* longest spectrum loaded by the analysis page
MaxRows == 3         \* most rows of a parsed file

(***************************************************************************)
(* JavaScript number arithmetic.                                           *)
(***************************************************************************)
Sign(n) == IF n > 0 THEN 1 ELSE IF n < 0 THEN -1 ELSE 0

AbsInt(n) == IF n < 0 THEN -n ELSE n

RECURSIVE Gcd(_, _)
Gcd(a, b) == IF b = 0 THEN a ELSE Gcd(b, a % b)

\* the rational n/d (d > 0) in lowest terms
Norm(n, d) ==
    LET g == Gcd(AbsInt(n), d)
    IN  <<Sign(n) * (AbsInt(n) \div g), d \div g>>

NaN == <<0, 0>>
PosInf == <<1, 0>>
NegInf == <<-1, 0>>
Zero == <<0, 1>>
One == <<1, 1>>

R(n) == <<n, 1>>

IsNaN(x) == x = NaN

IsFinite(x) == x[2] > 0

Neg(x) == <<-x[1], x[2]>>

\* x + y
Add(x, y) ==
    IF IsNaN(x) \/ IsNaN(y) THEN NaN
    ELSE IF IsFinite(x) /\ IsFinite(y)
         THEN Norm(x[1] * y[2] + y[1] * x[2], x[2] * y[2])
    ELSE IF ~IsFinite(x) /\ ~IsFinite(y) THEN (IF x = y THEN x ELSE NaN)
    ELSE IF ~IsFinite(x) THEN x
    ELSE y

\* x - y
Sub(x, y) == Add(x, Neg(y))

\* x * y
Mul(x, y) ==
    IF IsNaN(x) \/ IsNaN(y) THEN NaN
    ELSE IF IsFinite(x) /\ IsFinite(y) THEN Norm(x[1] * y[1], x[2] * y[2])
    ELSE IF x[1] = 0 \/ y[1] = 0 THEN NaN
    ELSE <<Sign(x[1]) * Sign(y[1]), 0>>

\* x / y : a zero divisor gives NaN (0/0) or an infinity, never an exception
Div(x, y) ==
    IF IsNaN(x) \/ IsNaN(y) THEN NaN
    ELSE IF ~IsFinite(x) /\ ~IsFinite(y) THEN NaN
    ELSE IF ~IsFinite(y) THEN Zero
    ELSE IF ~IsFinite(x) THEN <<x[1] * (IF y[1] < 0 THEN -1 ELSE 1), 0>>
    ELSE IF y[1] = 0 THEN (IF x[1] = 0 THEN NaN ELSE <<Sign(x[1]), 0>>)
    ELSE Norm(x[1] * y[2] * Sign(y[1]), x[2] * AbsInt(y[1]))

\* x < y (false when either is NaN)
Lt(x, y) ==
    /\ ~IsNaN(x)
    /\ ~IsNaN(y)
    /\ IF ~IsFinite(x) /\ ~IsFinite(y) THEN x[1] < y[1]
       ELSE x[1] * y[2] < y[1] * x[2]

\* x <= y (false when either is NaN)
Le(x, y) == ~IsNaN(x) /\ ~IsNaN(y) /\ ~Lt(y, x)

\* x > y and x >= y
Gt(x, y) == Lt(y, x)

Ge(x, y) == Le(y, x)

\* x === y
StrictEq(x, y) == ~IsNaN(x) /\ ~IsNaN(y) /\ x = y

\* Math.abs(x)
MathAbs(x) == <<AbsInt(x[1]), x[2]>>

\* Math.max(x, y) and Math.min(x, y): NaN if either argument is NaN
MathMax(x, y) ==
    IF IsNaN(x) \/ IsNaN(y) THEN NaN ELSE IF Lt(x, y) THEN y ELSE x

MathMin(x, y) ==
    IF IsNaN(x) \/ IsNaN(y) THEN NaN ELSE IF Lt(y, x) THEN y ELSE x

\* Math.pow(x, k) for an integer k >= 0; Math.pow(x, 0) is 1 for every x
RECURSIVE MathPow(_, _)
MathPow(x, k) == IF k = 0 THEN One ELSE Mul(x, MathPow(x, k - 1))

\* a <= t * Math.sqrt(v), for a >= 0 and v >= 0, decided without the root
LeTimesSqrt(a, t, v) ==
    IF IsNaN(a) \/ IsNaN(t) \/ IsNaN(v) THEN FALSE
    ELSE IF IsFinite(a) /\ IsFinite(t) /\ IsFinite(v)
         THEN IF t[1] >= 0 THEN Le(Mul(a, a), Mul(Mul(t, t), v))
              ELSE v = Zero /\ a = Zero
    ELSE Le(a, Mul(t, v))

(***************************************************************************)
(* Array helpers.                                                          *)
(***************************************************************************)
\* Array.from({length: n}, (_, i) => F(i)), arr.map(F): the array F(1), ..., F(n)
RECURSIVE Tabulate(_, _)
Tabulate(F(_), n) == IF n = 0 THEN <<>> ELSE Append(Tabulate(F, n - 1), F(n))

\* arr.reduce((a, b) => a + b, 0)
RECURSIVE Sum(_)
Sum(s) == IF s = <<>> THEN Zero ELSE Add(Sum(SubSeq(s, 1, Len(s) - 1)), s[Len(s)])

\* data.map(d => d.intensity), data.map(d => d.wavelength)
Intensities(d) == Tabulate(LAMBDA i : d[i].intensity, Len(d))

Wavelengths(d) == Tabulate(LAMBDA i : d[i].wavelength, Len(d))

\* arr.filter(keep), keep given as the set of kept indices
RECURSIVE FilterIdx(_, _, _)
FilterIdx(s, keep, i) ==
    IF i > Len(s) THEN <<>>
    ELSE (IF i \in keep THEN <<s[i]>> ELSE <<>>) \o FilterIdx(s, keep, i + 1)

Point(w, y) == [wavelength |-> w, intensity |-> y]

(***************************************************************************)
(* Numeric kernels.                                                        *)
(***************************************************************************)
\* area += dx * avgY over adjacent pairs; 0 for fewer than 2 points
RECURSIVE trapezoidalIntegration(_)
trapezoidalIntegration(d) ==
    IF Len(d) < 2 THEN Zero
    ELSE LET n == Len(d)
             dx == Sub(d[n].wavelength, d[n - 1].wavelength)
             avgY == Div(Add(d[n].intensity, d[n - 1].intensity), R(2))
         IN  Add(trapezoidalIntegration(SubSeq(d, 1, n - 1)), Mul(dx, avgY))

\* pivot selection: the row k >= i with the largest |A[k][i]| (first one wins)
RECURSIVE PivotRow(_, _, _, _, _)
PivotRow(A, i, k, maxEl, maxRow) ==
    IF k > Len(A) THEN maxRow
    ELSE IF Gt(MathAbs(A[k][i]), maxEl)
         THEN PivotRow(A, i, k + 1, MathAbs(A[k][i]), k)
         ELSE PivotRow(A, i, k + 1, maxEl, maxRow)

\* swap rows i and m of A in the columns i..n, and of B
SwapRows(A, i, m) ==
    Tabulate(LAMBDA r :
        Tabulate(LAMBDA c :
            IF c >= i /\ r = i THEN A[m][c]
            ELSE IF c >= i /\ r = m THEN A[i][c]
            ELSE A[r][c], Len(A)), Len(A))

SwapEntries(B, i, m) ==
    Tabulate(LAMBDA r : IF r = i THEN B[m] ELSE IF r = m THEN B[i] ELSE B[r], Len(B))

\* eliminate column i from the rows below row i
EliminateBelow(A, B, i) ==
    LET c(k) == Div(Neg(A[k][i]), A[i][i])
    IN  [A |-> Tabulate(LAMBDA k :
                  Tabulate(LAMBDA j :
                      IF k > i /\ j = i THEN Zero
                      ELSE IF k > i /\ j > i THEN Add(A[k][j], Mul(c(k), A[i][j]))
                      ELSE A[k][j], Len(A)), Len(A)),
         B |-> Tabulate(LAMBDA k :
                  IF k > i THEN Add(B[k], Mul(c(k), B[i])) ELSE B[k], Len(B))]

\* the row chosen as pivot row for column i
MaxRow(S, i) == PivotRow(S.A, i, i + 1, MathAbs(S.A[i][i]), i)

\* one iteration of the elimination loop, for column i
EliminationStep(S, i) ==
    LET maxRow == MaxRow(S, i)
    IN  EliminateBelow(SwapRows(S.A, i, maxRow), SwapEntries(S.B, i, maxRow), i)

\* the system after the iterations for columns 1..i
RECURSIVE ForwardElimination(_, _)
ForwardElimination(S, i) ==
    IF i = 0 THEN S ELSE EliminationStep(ForwardElimination(S, i - 1), i)

\* back substitution: x[i] = (B[i] - sum_{j > i} A[i][j] * x[j]) / A[i][i]
RECURSIVE BackSubstitution(_, _)
BackSubstitution(S, i) ==
    IF i > Len(S.B) THEN Tabulate(LAMBDA j : Zero, Len(S.B))
    ELSE LET x == BackSubstitution(S, i + 1)
             sum == Sum(Tabulate(LAMBDA j : Mul(S.A[i][i + j], x[i + j]),
                                 Len(S.B) - i))
         IN  [x EXCEPT ![i] = Div(Sub(S.B[i], sum), S.A[i][i])]

gaussianElimination(A, B) ==
    BackSubstitution(ForwardElimination([A |-> A, B |-> B], Len(B)), 1)

\* normal equations A[r][c] = sum x^(r+c), B[r] = sum y * x^r, then solve
NormalEquations(x, y, degree) ==
    LET k == degree + 1
    IN  [A |-> Tabulate(LAMBDA r : Tabulate(LAMBDA c :
                 Sum(Tabulate(LAMBDA i : MathPow(x[i], (r - 1) + (c - 1)), Len(x))),
                 k), k),
         B |-> Tabulate(LAMBDA r :
                 Sum(Tabulate(LAMBDA i : Mul(y[i], MathPow(x[i], r - 1)), Len(x))),
                 k)]

polyfit(x, y, degree) ==
    LET S == NormalEquations(x, y, degree)
    IN  gaussianElimination(S.A, S.B)

\* x = data.map((_, i) => i)
IndexValues(d) == Tabulate(LAMBDA i : R(i - 1), Len(d))

\* val = sum coeffs[i] * x^i
EvalPoly(coeffs, x) ==
    Sum(Tabulate(LAMBDA i : Mul(coeffs[i], MathPow(x, i - 1)), Len(coeffs)))

(***************************************************************************)
(* Preprocessing stages.                                                   *)
(***************************************************************************)
\* savitzkyGolayFilter that leaves the first and the last halfWindow points as
\* they are and averages full windows only
savitzkyGolayFilterCopyingEdges(d, windowLength, polynomialOrder) ==
    LET w == IF windowLength % 2 = 0 THEN windowLength + 1 ELSE windowLength
        halfWindow == w \div 2
        win(i) == {j \in 1..Len(d) : j >= i - halfWindow /\ j <= i + halfWindow}
        sum(i) == Sum(FilterIdx(Intensities(d), win(i), 1))
    IN  Tabulate(LAMBDA i :
            IF i <= halfWindow \/ i > Len(d) - halfWindow THEN d[i]
            ELSE Point(d[i].wavelength, Div(sum(i), R(Cardinality(win(i))))),
            Len(d))

\* savitzkyGolayFilter that honours the polynomial order the way a least-squares
\* smoother does: a polynomial of order >= window - 1 passes through every
\* point of the window, so the spectrum is returned as it is
savitzkyGolayFilterUsingOrder(d, windowLength, polynomialOrder) ==
    LET w == IF windowLength % 2 = 0 THEN windowLength + 1 ELSE windowLength
        halfWindow == w \div 2
        win(i) == {j \in 1..Len(d) : j >= i - halfWindow /\ j <= i + halfWindow}
        sum(i) == Sum(FilterIdx(Intensities(d), win(i), 1))
    IN  IF polynomialOrder >= w - 1 THEN d
        ELSE Tabulate(LAMBDA i :
                Point(d[i].wavelength, Div(sum(i), R(Cardinality(win(i))))),
                Len(d))

\* moving average over the available points within +-halfWindow
\* the moving average that returns only the points with a full window
savitzkyGolayFilterDroppingEdges(d, windowLength, polynomialOrder) ==
    LET w == IF windowLength % 2 = 0 THEN windowLength + 1 ELSE windowLength
        halfWindow == w \div 2
        win(i) == {j \in 1..Len(d) : j >= i - halfWindow /\ j <= i + halfWindow}
        sum(i) == Sum(FilterIdx(Intensities(d), win(i), 1))
        smoothed == Tabulate(LAMBDA i :
                       Point(d[i].wavelength, Div(sum(i), R(Cardinality(win(i))))),
                       Len(d))
    IN  FilterIdx(smoothed, {i \in 1..Len(d) : Cardinality(win(i)) = w}, 1)

savitzkyGolayFilter(d, windowLength, polynomialOrder) ==
    LET w == IF windowLength % 2 = 0 THEN windowLength + 1 ELSE windowLength
        halfWindow == w \div 2
        win(i) == {j \in 1..Len(d) : j >= i - halfWindow /\ j <= i + halfWindow}
        sum(i) == Sum(FilterIdx(Intensities(d), win(i), 1))
    IN  Tabulate(LAMBDA i :
            Point(d[i].wavelength, Div(sum(i), R(Cardinality(win(i))))), Len(d))

\* polynomialBaselineCorrection with the wavelengths as x-values of the fit
polynomialBaselineCorrectionOnWavelengths(d, degree) ==
    IF Len(d) = 0 THEN d
    ELSE LET x == Wavelengths(d)
             y == Intensities(d)
             coeffs == polyfit(x, y, degree)
             baseline == Tabulate(LAMBDA i : EvalPoly(coeffs, x[i]), Len(d))
         IN  Tabulate(LAMBDA i :
                 Point(d[i].wavelength,
                       MathMax(Zero, Sub(d[i].intensity, baseline[i]))), Len(d))

polynomialBaselineCorrection(d, degree) ==
    IF Len(d) = 0 THEN d
    ELSE LET x == IndexValues(d)
             y == Intensities(d)
             coeffs == polyfit(x, y, degree)
             baseline == Tabulate(LAMBDA i : EvalPoly(coeffs, x[i]), Len(d))
         IN  Tabulate(LAMBDA i :
                 Point(d[i].wavelength,
                       MathMax(Zero, Sub(d[i].intensity, baseline[i]))), Len(d))

\* Math.max(...values): -Infinity for no values
RECURSIVE MaxOf(_)
MaxOf(s) ==
    IF s = <<>> THEN NegInf
    ELSE MathMax(MaxOf(SubSeq(s, 1, Len(s) - 1)), s[Len(s)])

\* normalizeSpectrum without the guards against an empty spectrum, a zero
\* maximum and a zero area
normalizeSpectrumUnguarded(d, method) ==
    IF method = "max"
    THEN LET maxIntensity == MaxOf(Intensities(d))
         IN  Tabulate(LAMBDA i :
                 Point(d[i].wavelength, Div(d[i].intensity, maxIntensity)),
                 Len(d))
    ELSE LET area == trapezoidalIntegration(d)
         IN  Tabulate(LAMBDA i :
                 Point(d[i].wavelength, Div(d[i].intensity, area)), Len(d))

\* normalizeSpectrum dividing by the largest absolute intensity
normalizeSpectrumByAbsoluteMax(d, method) ==
    IF Len(d) = 0 THEN d
    ELSE IF method = "max"
    THEN LET maxIntensity ==
                 MaxOf(Tabulate(LAMBDA i : MathAbs(d[i].intensity), Len(d)))
         IN  IF StrictEq(maxIntensity, Zero) THEN d
             ELSE Tabulate(LAMBDA i :
                     Point(d[i].wavelength, Div(d[i].intensity, maxIntensity)),
                     Len(d))
    ELSE LET area == trapezoidalIntegration(d)
         IN  IF StrictEq(area, Zero) THEN d
             ELSE Tabulate(LAMBDA i :
                     Point(d[i].wavelength, Div(d[i].intensity, area)), Len(d))

\* normalizeSpectrum dividing by the absolute value of the area
normalizeSpectrumByAbsoluteArea(d, method) ==
    IF Len(d) = 0 THEN d
    ELSE IF method = "max"
    THEN LET maxIntensity == MaxOf(Intensities(d))
         IN  IF StrictEq(maxIntensity, Zero) THEN d
             ELSE Tabulate(LAMBDA i :
                     Point(d[i].wavelength, Div(d[i].intensity, maxIntensity)),
                     Len(d))
    ELSE LET area == MathAbs(trapezoidalIntegration(d))
         IN  IF StrictEq(area, Zero) THEN d
             ELSE Tabulate(LAMBDA i :
                     Point(d[i].wavelength, Div(d[i].intensity, area)), Len(d))

normalizeSpectrum(d, method) ==
    IF Len(d) = 0 THEN d
    ELSE IF method = "max"
    THEN LET maxIntensity == MaxOf(Intensities(d))
         IN  IF StrictEq(maxIntensity, Zero) THEN d
             ELSE Tabulate(LAMBDA i :
                     Point(d[i].wavelength, Div(d[i].intensity, maxIntensity)),
                     Len(d))
    ELSE LET area == trapezoidalIntegration(d)
         IN  IF StrictEq(area, Zero) THEN d
             ELSE Tabulate(LAMBDA i :
                     Point(d[i].wavelength, Div(d[i].intensity, area)), Len(d))

\* intensities.reduce(...) / intensities.length
Mean(ys) == Div(Sum(ys), R(Len(ys)))

\* population variance of the intensities
Variance(ys) ==
    LET mean == Mean(ys)
    IN  Div(Sum(Tabulate(LAMBDA i : MathPow(Sub(ys[i], mean), 2), Len(ys))),
            R(Len(ys)))

\* removeOutliers that replaces an outlier by the mean instead of dropping it
removeOutliersClamping(d, threshold) ==
    IF Len(d) = 0 THEN d
    ELSE LET intensities == Intensities(d)
             mean == Mean(intensities)
             variance == Variance(intensities)
         IN  IF StrictEq(variance, Zero) THEN d
             ELSE Tabulate(LAMBDA i :
                    IF LeTimesSqrt(MathAbs(Sub(d[i].intensity, mean)),
                                   threshold, variance)
                    THEN d[i]
                    ELSE Point(d[i].wavelength, mean), Len(d))

\* removeOutliers without the std === 0 guard, testing the z-score
\* |intensity - mean| / std <= threshold (0 / 0 is NaN, and NaN <= t is false)
removeOutliersZScore(d, threshold) ==
    IF Len(d) = 0 THEN d
    ELSE LET intensities == Intensities(d)
             mean == Mean(intensities)
             variance == Variance(intensities)
         IN  FilterIdx(d,
                {i \in 1..Len(d) :
                    /\ ~StrictEq(variance, Zero)
                    /\ LeTimesSqrt(MathAbs(Sub(d[i].intensity, mean)),
                                   threshold, variance)}, 1)

removeOutliers(d, threshold) ==
    IF Len(d) = 0 THEN d
    ELSE LET intensities == Intensities(d)
             mean == Mean(intensities)
             variance == Variance(intensities)
         IN  IF StrictEq(variance, Zero) THEN d
             ELSE FilterIdx(d,
                    {i \in 1..Len(d) :
                        LeTimesSqrt(MathAbs(Sub(d[i].intensity, mean)),
                                    threshold, variance)}, 1)

(***************************************************************************)
(* Peak detection.                                                         *)
(***************************************************************************)
\* while (leftIdx > 0 && data[leftIdx].intensity > halfMax) leftIdx--
RECURSIVE WalkLeft(_, _, _)
WalkLeft(d, idx, halfMax) ==
    IF idx > 1 /\ Gt(d[idx].intensity, halfMax)
    THEN WalkLeft(d, idx - 1, halfMax)
    ELSE idx

\* while (rightIdx < data.length - 1 && data[rightIdx].intensity > halfMax) rightIdx++
RECURSIVE WalkRight(_, _, _)
WalkRight(d, idx, halfMax) ==
    IF idx < Len(d) /\ Gt(d[idx].intensity, halfMax)
    THEN WalkRight(d, idx + 1, halfMax)
    ELSE idx

\* calculateFWHM whose walks stop on the last point above half-max instead
\* of the first point at or below it
calculateFWHMLastAbove(d, peakIndex) ==
    LET halfMax == Div(d[peakIndex].intensity, R(2))
        leftIdx == WalkLeft(d, peakIndex, halfMax)
        rightIdx == WalkRight(d, peakIndex, halfMax)
        left == IF Gt(d[leftIdx].intensity, halfMax) THEN leftIdx ELSE leftIdx + 1
        right == IF Gt(d[rightIdx].intensity, halfMax) THEN rightIdx ELSE rightIdx - 1
    IN  Sub(d[right].wavelength, d[left].wavelength)

\* calculateFWHM with the operands of the final subtraction exchanged
calculateFWHMReversed(d, peakIndex) ==
    LET halfMax == Div(d[peakIndex].intensity, R(2))
        leftIdx == WalkLeft(d, peakIndex, halfMax)
        rightIdx == WalkRight(d, peakIndex, halfMax)
    IN  Sub(d[leftIdx].wavelength, d[rightIdx].wavelength)

calculateFWHM(d, peakIndex) ==
    LET halfMax == Div(d[peakIndex].intensity, R(2))
        leftIdx == WalkLeft(d, peakIndex, halfMax)
        rightIdx == WalkRight(d, peakIndex, halfMax)
    IN  Sub(d[rightIdx].wavelength, d[leftIdx].wavelength)

\* calculatePeakArea over half the FWHM on each side of the peak
calculatePeakAreaHalfWidth(d, peakIndex, fwhm) ==
    LET currentWavelength == d[peakIndex].wavelength
        leftWavelength == Sub(currentWavelength, Div(fwhm, R(2)))
        rightWavelength == Add(currentWavelength, Div(fwhm, R(2)))
        peakData == FilterIdx(d,
                       {i \in 1..Len(d) :
                           /\ Ge(d[i].wavelength, leftWavelength)
                           /\ Le(d[i].wavelength, rightWavelength)}, 1)
    IN  trapezoidalIntegration(peakData)

calculatePeakArea(d, peakIndex, fwhm) ==
    LET currentWavelength == d[peakIndex].wavelength
        leftWavelength == Sub(currentWavelength, fwhm)
        rightWavelength == Add(currentWavelength, fwhm)
        peakData == FilterIdx(d,
                       {i \in 1..Len(d) :
                           /\ Ge(d[i].wavelength, leftWavelength)
                           /\ Le(d[i].wavelength, rightWavelength)}, 1)
    IN  trapezoidalIntegration(peakData)

\* the test of the scan loop with curr > minHeight for curr >= minHeight
IsLocalMaximumAboveMinHeight(d, i, minHeight) ==
    /\ Gt(d[i].intensity, d[i - 1].intensity)
    /\ Gt(d[i].intensity, d[i + 1].intensity)
    /\ Gt(d[i].intensity, minHeight)

\* the test of the scan loop at (1-based) index i
IsLocalMaximum(d, i, minHeight) ==
    /\ Gt(d[i].intensity, d[i - 1].intensity)
    /\ Gt(d[i].intensity, d[i + 1].intensity)
    /\ Ge(d[i].intensity, minHeight)

\* the Peak pushed for index i
PeakAt(d, i) ==
    LET fwhm == calculateFWHM(d, i)
    IN  [position |-> d[i].wavelength,
         amplitude |-> d[i].intensity,
         fwhm |-> fwhm,
         area |-> calculatePeakArea(d, i, fwhm),
         prominence |-> Sub(d[i].intensity,
                            MathMin(d[i - 1].intensity, d[i + 1].intensity))]

\* the scan loop from index i on: the candidates, in scan order
RECURSIVE ScanPeaks(_, _, _)
ScanPeaks(d, i, minHeight) ==
    IF i > Len(d) - 1 THEN <<>>
    ELSE (IF IsLocalMaximum(d, i, minHeight) THEN <<PeakAt(d, i)>> ELSE <<>>)
         \o ScanPeaks(d, i + 1, minHeight)

detectPeaks(d, prominence, minHeight) ==
    LET peaks == ScanPeaks(d, 2, minHeight)
    IN  FilterIdx(peaks, {k \in 1..Len(peaks) : Ge(peaks[k].prominence, prominence)}, 1)

(***************************************************************************)
(* Values of Math.exp.  The fitted curves are sums of rational multiples   *)
(* of e^(-q) for rational q; such a number is modelled exactly as the      *)
(* sequence of its terms <<q, c>> (the term c * e^(-q)), ordered by q,     *)
(* with one term per q and no term of coefficient 0.  A rational r is the  *)
(* single term <<0, r>>, and 0 is the empty sequence.  Distinct sequences  *)
(* are distinct numbers, since the e^(-q) are linearly independent over    *)
(* the rationals.                                                          *)
(***************************************************************************)
ExpZero == <<>>

\* the number r
Lift(r) == IF r = Zero THEN ExpZero ELSE <<<<Zero, r>>>>

\* a * b, with the common factors taken out before multiplying when both
\* are finite
MulReduced(a, b) ==
    IF ~IsFinite(a) \/ ~IsFinite(b) \/ a[1] = 0 \/ b[1] = 0 THEN Mul(a, b)
    ELSE LET g == Gcd(AbsInt(a[1]), b[2])
             k == Gcd(AbsInt(b[1]), a[2])
         IN  <<(a[1] \div g) * (b[1] \div k), (a[2] \div k) * (b[2] \div g)>>

\* a / b, as a product with the reciprocal when both are finite and b is not 0
DivReduced(a, b) ==
    IF ~IsFinite(a) \/ ~IsFinite(b) \/ b[1] = 0 THEN Div(a, b)
    ELSE MulReduced(a, <<Sign(b[1]) * b[2], AbsInt(b[1])>>)

\* a + b, computed over the least common denominator with the common factor
\* of the numerators taken out when both are finite
AddReduced(a, b) ==
    IF ~IsFinite(a) \/ ~IsFinite(b) THEN Add(a, b)
    ELSE IF a[1] = 0 THEN b
    ELSE IF b[1] = 0 THEN a
    ELSE LET g == Gcd(a[2], b[2])
             k == Gcd(AbsInt(a[1]), AbsInt(b[1]))
             sum == Norm((a[1] \div k) * (b[2] \div g)
                           + (b[1] \div k) * (a[2] \div g),
                         a[2] * (b[2] \div g))
             f == Gcd(k, sum[2])
         IN  <<(k \div f) * sum[1], sum[2] \div f>>

\* a < b for finite rationals, with the common factors of the numerators and
\* of the denominators taken out before cross-multiplying
LtReduced(a, b) ==
    LET g == Gcd(a[2], b[2])
        k == Gcd(AbsInt(a[1]), AbsInt(b[1]))
    IN  IF k = 0 THEN FALSE
        ELSE (a[1] \div k) * (b[2] \div g) < (b[1] \div k) * (a[2] \div g)

\* e + c * e^(-q)
RECURSIVE ExpAddTerm(_, _, _)
ExpAddTerm(e, q, c) ==
    IF c = Zero THEN e
    ELSE IF e = <<>> THEN <<<<q, c>>>>
    ELSE LET h == Head(e)
         IN  IF h[1] = q
             THEN LET sum == AddReduced(h[2], c)
                  IN  IF sum = Zero THEN Tail(e) ELSE <<<<q, sum>>>> \o Tail(e)
             ELSE IF LtReduced(q, h[1]) THEN <<<<q, c>>>> \o e
             ELSE <<h>> \o ExpAddTerm(Tail(e), q, c)

\* whether no term of the number is NaN or infinite
ExpIsFinite(a) == \A i \in 1..Len(a) : IsFinite(a[i][2])

\* a number with a NaN or infinite term is NaN or an infinity as a whole
ExpNorm(a) ==
    IF ExpIsFinite(a) THEN a
    ELSE Lift(Sum(FilterIdx(Tabulate(LAMBDA i : a[i][2], Len(a)),
                            {i \in 1..Len(a) : ~IsFinite(a[i][2])}, 1)))

RECURSIVE ExpAddTerms(_, _)
ExpAddTerms(a, b) ==
    IF b = <<>> THEN a
    ELSE ExpAddTerms(ExpAddTerm(a, Head(b)[1], Head(b)[2]), Tail(b))

\* a + b
ExpAdd(a, b) == ExpNorm(ExpAddTerms(a, b))

\* a * (c * e^(-q))
ExpMulTerm(a, q, c) ==
    Tabulate(LAMBDA i :
        <<IF IsFinite(a[i][2]) /\ IsFinite(c) THEN AddReduced(a[i][1], q)
          ELSE Zero,
          MulReduced(a[i][2], c)>>, Len(a))

RECURSIVE ExpMulTerms(_, _)
ExpMulTerms(a, b) ==
    IF b = <<>> THEN ExpZero
    ELSE ExpAddTerms(ExpMulTerm(a, Head(b)[1], Head(b)[2]), ExpMulTerms(a, Tail(b)))

\* a * b (0 times NaN or an infinity is NaN)
ExpMul(a, b) ==
    IF (a = <<>> /\ ~ExpIsFinite(b)) \/ (b = <<>> /\ ~ExpIsFinite(a))
    THEN Lift(NaN)
    ELSE ExpNorm(ExpMulTerms(a, b))

\* a * r for a rational r
ExpScale(a, r) == ExpMul(a, Lift(r))

\* a - b
ExpSub(a, b) == ExpAdd(a, ExpScale(b, R(-1)))

\* a / r for a rational r (0 / 0 is NaN, c / 0 is an infinity)
ExpDiv(a, r) ==
    IF a = <<>> THEN Lift(Div(Zero, r))
    ELSE ExpNorm(Tabulate(LAMBDA i : <<a[i][1], DivReduced(a[i][2], r)>>,
                          Len(a)))

\* Math.pow(a, 2)
ExpSquare(a) == ExpMul(a, a)

\* a[1] + ... + a[n]
RECURSIVE ExpSum(_)
ExpSum(s) ==
    IF s = <<>> THEN ExpZero
    ELSE ExpAdd(ExpSum(SubSeq(s, 1, Len(s) - 1)), s[Len(s)])

\* Math.exp(x): exp(NaN) is NaN, exp(-Infinity) is 0, exp(Infinity) is Infinity
MathExp(x) ==
    IF IsNaN(x) THEN Lift(NaN)
    ELSE IF x = NegInf THEN ExpZero
    ELSE IF x = PosInf THEN Lift(PosInf)
    ELSE <<<<Neg(x), One>>>>

(***************************************************************************)
(* Peak-shape models and curve fitting.                                    *)
(***************************************************************************)
\* the constant 2.355 relating the FWHM to sigma
FwhmPerSigma == <<471, 200>>

\* gaussian without the guard against a zero width
gaussianUnguarded(x, amplitude, center, width) ==
    ExpScale(MathExp(Div(Neg(MathPow(Sub(x, center), 2)),
                         Mul(R(2), MathPow(width, 2)))), amplitude)

gaussian(x, amplitude, center, width) ==
    IF StrictEq(width, Zero) THEN ExpZero
    ELSE ExpScale(MathExp(Div(Neg(MathPow(Sub(x, center), 2)),
                              Mul(R(2), MathPow(width, 2)))), amplitude)

lorentzian(x, amplitude, center, width) ==
    IF StrictEq(width, Zero) THEN ExpZero
    ELSE Lift(Div(amplitude,
                  Add(One, MathPow(Div(Sub(x, center), width), 2))))

\* fitGaussian that keeps the contribution of the last peak only
fitGaussianLastPeakOnly(d, peaks) ==
    Tabulate(LAMBDA i :
        Point(d[i].wavelength,
              IF peaks = <<>> THEN ExpZero
              ELSE LET peak == peaks[Len(peaks)]
                   IN  gaussian(d[i].wavelength, peak.amplitude, peak.position,
                                Div(peak.fwhm, FwhmPerSigma))),
        Len(d))

fitGaussian(d, peaks) ==
    Tabulate(LAMBDA i :
        Point(d[i].wavelength,
              ExpSum(Tabulate(LAMBDA k :
                  gaussian(d[i].wavelength, peaks[k].amplitude,
                           peaks[k].position, Div(peaks[k].fwhm, FwhmPerSigma)),
                  Len(peaks)))),
        Len(d))

fitLorentzian(d, peaks) ==
    Tabulate(LAMBDA i :
        Point(d[i].wavelength,
              ExpSum(Tabulate(LAMBDA k :
                  lorentzian(d[i].wavelength, peaks[k].amplitude,
                             peaks[k].position, Div(peaks[k].fwhm, R(2))),
                  Len(peaks)))),
        Len(d))

(***************************************************************************)
(* Goodness of fit.  observed is a sequence of rationals, predicted a      *)
(* sequence of values of the fitted curve; an index past the end of        *)
(* predicted reads undefined, which is NaN in arithmetic.                  *)
(***************************************************************************)
PredictedAt(predicted, i) ==
    IF i <= Len(predicted) THEN predicted[i] ELSE Lift(NaN)

\* observed.reduce((sum, val, i) => sum + Math.pow(val - predicted[i], 2), 0)
SumSquaredResiduals(observed, predicted) ==
    ExpSum(Tabulate(LAMBDA i :
        ExpSquare(ExpSub(Lift(observed[i]), PredictedAt(predicted, i))),
        Len(observed)))

\* observed.reduce((sum, val) => sum + Math.pow(val - mean, 2), 0)
SumSquaresTotal(observed) ==
    Sum(Tabulate(LAMBDA i : MathPow(Sub(observed[i], Mean(observed)), 2),
                 Len(observed)))

\* Math.sqrt(a): the square root is kept as the number under the root; the
\* root of 0 is 0
MathSqrt(a) == [sqrtOf |-> a]

\* the number 0 as a value of calculateRMSE
RootZero == MathSqrt(ExpZero)

\* calculateRSquared without the guards for empty and flat observed data
calculateRSquaredUnguarded(observed, predicted) ==
    ExpSub(Lift(One), ExpDiv(SumSquaredResiduals(observed, predicted),
                             SumSquaresTotal(observed)))

\* calculateRSquared returning the ratio of the sums of squares itself
calculateRSquaredWithoutComplement(observed, predicted) ==
    IF Len(observed) = 0 THEN ExpZero
    ELSE LET ssTotal == SumSquaresTotal(observed)
             ssResidual == SumSquaredResiduals(observed, predicted)
         IN  IF StrictEq(ssTotal, Zero) THEN ExpZero
             ELSE ExpDiv(ssResidual, ssTotal)

calculateRSquared(observed, predicted) ==
    IF Len(observed) = 0 THEN ExpZero
    ELSE LET ssTotal == SumSquaresTotal(observed)
             ssResidual == SumSquaredResiduals(observed, predicted)
         IN  IF StrictEq(ssTotal, Zero) THEN ExpZero
             ELSE ExpSub(Lift(One), ExpDiv(ssResidual, ssTotal))

calculateRMSE(observed, predicted) ==
    IF Len(observed) = 0 THEN RootZero
    ELSE MathSqrt(ExpDiv(SumSquaredResiduals(observed, predicted),
                         R(Len(observed))))

(***************************************************************************)
(* Statistics of a spectrum.                                               *)
(***************************************************************************)
\* Math.min(...values): +Infinity for no values
RECURSIVE MinOf(_)
MinOf(s) ==
    IF s = <<>> THEN PosInf
    ELSE MathMin(MinOf(SubSeq(s, 1, Len(s) - 1)), s[Len(s)])

\* the Statistics record
Statistics(mean, std, max, min, area) ==
    [mean_intensity |-> mean, std_intensity |-> std, max_intensity |-> max,
     min_intensity |-> min, total_area |-> area]

\* calculateStatistics without the guard for an empty spectrum
calculateStatisticsUnguarded(d) ==
    LET intensities == Intensities(d)
    IN  Statistics(Mean(intensities), MathSqrt(Lift(Variance(intensities))),
                   MaxOf(intensities), MinOf(intensities),
                   trapezoidalIntegration(d))

calculateStatistics(d) ==
    IF Len(d) = 0 THEN Statistics(Zero, RootZero, Zero, Zero, Zero)
    ELSE LET intensities == Intensities(d)
         IN  Statistics(Mean(intensities),
                        MathSqrt(Lift(Variance(intensities))),
                        MaxOf(intensities), MinOf(intensities),
                        trapezoidalIntegration(d))

(***************************************************************************)
(* The analysis run of the analysis page.                                  *)
(***************************************************************************)
\* the fit of the analysis run with the Voigt model fitted as a Lorentzian
FitCurveVoigtAsLorentzian(model, d, peaks) ==
    IF model = "gaussian" THEN fitGaussian(d, peaks)
    ELSE fitLorentzian(d, peaks)

\* the fit of the analysis run: Voigt is fitted as a Gaussian
FitCurve(model, d, peaks) ==
    IF model = "gaussian" THEN fitGaussian(d, peaks)
    ELSE IF model = "lorentzian" THEN fitLorentzian(d, peaks)
    ELSE fitGaussian(d, peaks)

\* no fitting result (null)
NoFittingResult == [present |-> FALSE]

\* the FittingResult of an analysis run that detected the peaks
FittingResultOf(model, d, peaks) ==
    LET fittedData == FitCurve(model, d, peaks)
        observed == Intensities(d)
        predicted == Intensities(fittedData)
    IN  [present |-> TRUE,
         model |-> model,
         peaks |-> peaks,
         r_squared |-> calculateRSquared(observed, predicted),
         rmse |-> calculateRMSE(observed, predicted),
         fitted_data |-> fittedData]

\* what an analysis run sets: the detected peaks, and the fitting result when
\* a peak was detected
handleAnalyze(d, model, prominence, minHeight) ==
    LET detectedPeaks == detectPeaks(d, prominence, minHeight)
    IN  [peaks |-> detectedPeaks,
         fittingResult |-> IF Len(detectedPeaks) = 0 THEN NoFittingResult
                           ELSE FittingResultOf(model, d, detectedPeaks)]

(***************************************************************************)
(* The analysis page.  Its state is the record page; handleAnalyze is      *)
(* asynchronous and runs in two uninterrupted parts, up to the await of    *)
(* saveAnalysisResult and after it.  page.steps records the calls of the   *)
(* latest run in the order they were made, page.toasts the titles of the   *)
(* toasts it showed.                                                       *)
(***************************************************************************)
\* no run is awaiting saveAnalysisResult
NoRun == [awaiting |-> FALSE]

\* the run awaiting saveAnalysisResult, with what it handed over to be saved
AwaitingSave(detectedPeaks, result, statistics) ==
    [awaiting |-> TRUE, detectedPeaks |-> detectedPeaks, result |-> result,
     statistics |-> statistics]

\* the page after construction
InitialPage ==
    [mounted |-> TRUE, loading |-> TRUE, analyzing |-> FALSE,
     model |-> "gaussian", prominence |-> <<1, 10>>, minHeight |-> <<1, 20>>,
     peaks |-> <<>>, fittingResult |-> NoFittingResult,
     pending |-> NoRun, steps |-> <<>>, toasts |-> <<>>]

\* the call that fits the curve of the model
FitStep(model) ==
    IF model = "lorentzian" THEN "fitLorentzian" ELSE "fitGaussian"

\* catch and finally without the reset of the analyzing flag
CaughtWithoutFinally(pg, log) ==
    [pg EXCEPT !.steps = log \o <<"toast">>,
               !.toasts = <<"Analysis failed">>,
               !.pending = NoRun]

\* catch: the failure toast; finally: setAnalyzing(false)
Caught(pg, log) ==
    [pg EXCEPT !.steps = log \o <<"toast", "setAnalyzing(false)">>,
               !.toasts = <<"Analysis failed">>,
               !.analyzing = FALSE,
               !.pending = NoRun]

\* the exit of a run without peaks reported as a failure
NoPeaksExitAsFailure(pg, log) ==
    [pg EXCEPT !.steps = log \o <<"toast", "setAnalyzing(false)">>,
               !.toasts = <<"Analysis failed">>,
               !.analyzing = FALSE]

\* detectedPeaks.length === 0: the toast, return, and finally
NoPeaksExit(pg, log) ==
    [pg EXCEPT !.steps = log \o <<"toast", "setAnalyzing(false)">>,
               !.toasts = <<"No peaks detected">>,
               !.analyzing = FALSE]

\* from the curve fit to the await of saveAnalysisResult; raises names the
\* call that throws, if any
FitAndSave(pg, log, d, detectedPeaks, raises) ==
    LET fit == FitStep(pg.model)
    IN  IF raises = "fit" THEN Caught(pg, log \o <<fit>>)
        ELSE IF raises = "calculateRSquared"
        THEN Caught(pg, log \o <<fit, "calculateRSquared">>)
        ELSE LET result == FittingResultOf(pg.model, d, detectedPeaks)
                 fitted == [pg EXCEPT !.fittingResult = result]
                 scored == log \o <<fit, "calculateRSquared", "calculateRMSE",
                                    "setFittingResult", "calculateStatistics">>
             IN  IF raises = "calculateStatistics" THEN Caught(fitted, scored)
                 ELSE [fitted EXCEPT
                          !.steps = scored \o <<"saveAnalysisResult">>,
                          !.pending = AwaitingSave(detectedPeaks, result,
                                                   calculateStatistics(d))]

\* handleAnalyze up to the await of saveAnalysisResult, or to its end when it
\* returns or catches before
handleAnalyzeUntilAwait(pg, d, raises) ==
    IF Len(d) = 0 THEN [pg EXCEPT !.steps = <<>>, !.toasts = <<>>]
    ELSE LET started == [pg EXCEPT !.analyzing = TRUE, !.toasts = <<>>]
             log == <<"setAnalyzing(true)", "detectPeaks">>
         IN  IF raises = "detectPeaks" THEN Caught(started, log)
             ELSE LET detectedPeaks ==
                          detectPeaks(d, pg.prominence, pg.minHeight)
                      detected == [started EXCEPT !.peaks = detectedPeaks]
                  IN  IF Len(detectedPeaks) = 0
                      THEN NoPeaksExit(detected, log \o <<"setPeaks">>)
                      ELSE FitAndSave(detected, log \o <<"setPeaks">>, d,
                                      detectedPeaks, raises)

\* handleAnalyze after the await: the success toast when the save resolved,
\* catch when it rejected, and finally
handleAnalyzeAfterAwait(pg, resolved) ==
    IF resolved
    THEN [pg EXCEPT !.steps = pg.steps \o <<"toast", "setAnalyzing(false)">>,
                    !.toasts = <<"Analysis complete">>,
                    !.analyzing = FALSE,
                    !.pending = NoRun]
    ELSE Caught(pg, pg.steps)

\* the Continue button is enabled
ContinueEnabled(pg) == pg.fittingResult.present

(***************************************************************************)
(* The preprocessing pipeline.  A sub-config is a record whose field       *)
(* present tells whether the key is set in PreprocessingParams.            *)
(***************************************************************************)
Absent == [present |-> FALSE]

\* preprocessSpectrum with normalization run before baseline correction
preprocessSpectrumNormalizeEarly(d, params) ==
    LET p1 == IF params.outlier_removal.present /\ params.outlier_removal.enabled
              THEN removeOutliers(d, params.outlier_removal.threshold)
              ELSE d
        p2 == IF params.noise_reduction.present
              THEN savitzkyGolayFilter(p1, params.noise_reduction.window_length,
                                       params.noise_reduction.polynomial_order)
              ELSE p1
        p3 == IF params.normalization.present
              THEN normalizeSpectrum(p2, params.normalization.method)
              ELSE p2
        p4 == IF /\ params.baseline_correction.present
                 /\ params.baseline_correction.method = "polynomial"
              THEN polynomialBaselineCorrection(p3,
                      IF params.baseline_correction.polynomial_degree = 0
                      THEN 2
                      ELSE params.baseline_correction.polynomial_degree)
              ELSE p3
    IN  p4

\* preprocessSpectrum that runs outlier removal whenever its sub-config is
\* set, and treats every baseline method as "polynomial"
preprocessSpectrumIgnoringSwitches(d, params) ==
    LET p1 == IF params.outlier_removal.present
              THEN removeOutliers(d, params.outlier_removal.threshold)
              ELSE d
        p2 == IF params.noise_reduction.present
              THEN savitzkyGolayFilter(p1, params.noise_reduction.window_length,
                                       params.noise_reduction.polynomial_order)
              ELSE p1
        p3 == IF params.baseline_correction.present
              THEN polynomialBaselineCorrection(p2,
                      IF params.baseline_correction.polynomial_degree = 0
                      THEN 2
                      ELSE params.baseline_correction.polynomial_degree)
              ELSE p2
        p4 == IF params.normalization.present
              THEN normalizeSpectrum(p3, params.normalization.method)
              ELSE p3
    IN  p4

preprocessSpectrum(d, params) ==
    LET p0 == d
        \* 1. Remove outliers
        p1 == IF params.outlier_removal.present /\ params.outlier_removal.enabled
              THEN removeOutliers(p0, params.outlier_removal.threshold)
              ELSE p0
        \* 2. Noise reduction
        p2 == IF params.noise_reduction.present
              THEN savitzkyGolayFilter(p1, params.noise_reduction.window_length,
                                       params.noise_reduction.polynomial_order)
              ELSE p1
        \* 3. Baseline correction
        p3 == IF /\ params.baseline_correction.present
                 /\ params.baseline_correction.method = "polynomial"
              THEN polynomialBaselineCorrection(p2,
                      IF params.baseline_correction.polynomial_degree = 0
                      THEN 2
                      ELSE params.baseline_correction.polynomial_degree)
              ELSE p2
        \* 4. Normalization
        p4 == IF params.normalization.present
              THEN normalizeSpectrum(p3, params.normalization.method)
              ELSE p3
    IN  p4

(***************************************************************************)
(* Inputs.                                                                 *)
(***************************************************************************)
IntensityValues == {<<-1, 1>>, <<0, 1>>, <<2, 1>>}

\* gaps between consecutive wavelengths: gaps[1] after the points 1, 3, ...
\* and gaps[2] after the points 2, 4, ...
GapPatterns == {<<0, 0>>, <<0, 1>>, <<1, 0>>, <<1, 1>>}

DetectGapPatterns == {<<1, 1>>, <<1, 2>>, <<2, 1>>, <<0, 1>>}

\* the wavelength of point i of a spectrum that starts at wavelength 1
RECURSIVE WavelengthAt(_, _)
WavelengthAt(gaps, i) ==
    IF i = 1 THEN 1 ELSE WavelengthAt(gaps, i - 1) + gaps[2 - (i % 2)]

\* the spectra of at most n points, sorted ascending by wavelength, with the
\* gaps between wavelengths drawn from gs and the intensities drawn from ys
SpectraUpTo(n, gs, ys) ==
    UNION {{Tabulate(LAMBDA i : Point(R(WavelengthAt(gaps, i)), y[i]), k) :
               gaps \in gs, y \in [1..k -> ys]}
           : k \in 0..n}

ThresholdValues == {<<-1, 1>>, <<0, 1>>, <<1, 2>>, <<1, 1>>, <<3, 1>>}

OutlierConfigs ==
    {Absent,
     [present |-> TRUE, enabled |-> FALSE, threshold |-> <<1, 1>>],
     [present |-> TRUE, enabled |-> TRUE, threshold |-> <<1, 1>>]}

NoiseConfigs ==
    {Absent, [present |-> TRUE, window_length |-> 3, polynomial_order |-> 2]}

BaselineConfigs ==
    {Absent} \cup
    {[present |-> TRUE, method |-> "als", polynomial_degree |-> 0]} \cup
    {[present |-> TRUE, method |-> "polynomial", polynomial_degree |-> g] :
        g \in {0, 1}}

NormalizationConfigs ==
    {Absent} \cup {[present |-> TRUE, method |-> m] : m \in {"max", "area"}}

PreprocessingParams ==
    [outlier_removal : OutlierConfigs,
     noise_reduction : NoiseConfigs,
     baseline_correction : BaselineConfigs,
     normalization : NormalizationConfigs]

NoCall == [fn |-> "none"]

Returned(v) == [threw |-> FALSE, value |-> v]

\* the analysis page is not mounted
NoPage == [mounted |-> FALSE]

(***************************************************************************)
(* Ingestion.  A cell of a parsed file is a string, modelled as the        *)
(* sequence of its characters; a row is a sequence of cells.  Number(cell) *)
(* is modelled for blanks, a sign and decimal digits; fractions,           *)
(* exponents, hexadecimal literals and "Infinity" are not modelled.        *)
(***************************************************************************)
DigitChars == <<"0", "1", "2", "3", "4", "5", "6", "7", "8", "9">>

\* the value of a string of decimal digits
RECURSIVE DigitsValue(_)
DigitsValue(s) ==
    IF s = <<>> THEN 0
    ELSE 10 * DigitsValue(SubSeq(s, 1, Len(s) - 1))
         + (CHOOSE n \in 1..10 : DigitChars[n] = s[Len(s)]) - 1

\* the string without its leading and trailing blanks
RECURSIVE Trim(_)
Trim(s) ==
    IF s = <<>> THEN s
    ELSE IF s[1] = " " THEN Trim(Tail(s))
    ELSE IF s[Len(s)] = " " THEN Trim(SubSeq(s, 1, Len(s) - 1))
    ELSE s

\* a cell past the end of its row: undefined, which is no string
Undefined == <<"undefined">>

\* Number(cell): NaN for undefined, 0 for an empty or blank string, the
\* value of a decimal integer literal, NaN for other text
Number(cell) ==
    IF cell = Undefined THEN NaN
    ELSE LET t == Trim(cell)
             digits == IF t # <<>> /\ t[1] \in {"-", "+"} THEN Tail(t) ELSE t
         IN  IF t = <<>> THEN Zero
             ELSE IF /\ digits # <<>>
                     /\ \A i \in 1..Len(digits) :
                           \E n \in 1..10 : DigitChars[n] = digits[i]
             THEN R(IF t[1] = "-" THEN -DigitsValue(digits)
                    ELSE DigitsValue(digits))
             ELSE NaN

\* row[j]
CellAt(row, j) == IF j <= Len(row) THEN row[j] ELSE Undefined

\* Array.prototype.sort with (a, b) => a.wavelength - b.wavelength: stable,
\* each point inserted after the points that do not compare greater
RECURSIVE InsertByWavelength(_, _)
InsertByWavelength(sorted, p) ==
    IF sorted = <<>> THEN <<p>>
    ELSE IF Gt(sorted[Len(sorted)].wavelength, p.wavelength)
    THEN Append(InsertByWavelength(SubSeq(sorted, 1, Len(sorted) - 1), p),
                sorted[Len(sorted)])
    ELSE Append(sorted, p)

RECURSIVE SortByWavelength(_)
SortByWavelength(d) ==
    IF d = <<>> THEN d
    ELSE InsertByWavelength(SortByWavelength(SubSeq(d, 1, Len(d) - 1)),
                            d[Len(d)])

Thrown(message) == [threw |-> TRUE, error |-> message]

\* the points pushed by the loop over the rows i .. rawData.length
RECURSIVE ParsedRows(_, _)
ParsedRows(rawData, i) ==
    IF i > Len(rawData) THEN <<>>
    ELSE LET row == rawData[i]
             wavelength == Number(CellAt(row, 1))
             intensity == Number(CellAt(row, 2))
         IN  IF Len(row) >= 2 /\ ~IsNaN(wavelength) /\ ~IsNaN(intensity)
             THEN <<Point(wavelength, intensity)>> \o ParsedRows(rawData, i + 1)
             ELSE ParsedRows(rawData, i + 1)

parseSpectralData(rawData) ==
    LET startRow == IF Len(rawData) > 0 /\ IsNaN(Number(CellAt(rawData[1], 1)))
                    THEN 2 ELSE 1
        parsed == ParsedRows(rawData, startRow)
    IN  IF Len(parsed) = 0 THEN Thrown("No valid spectral data found in file")
        ELSE Returned(SortByWavelength(parsed))

(***************************************************************************)
(* Specification of the preprocessing functions: a spectrum is drawn, and  *)
(* one function of the engine is applied to it.                            *)
(***************************************************************************)
Init ==
    /\ data \in SpectraUpTo(MaxLen, GapPatterns, IntensityValues)
    /\ call = NoCall
    /\ ret = Returned(<<>>)
    /\ page = NoPage

CallPreprocessSpectrum(params) ==
    /\ call = NoCall
    /\ call' = [fn |-> "preprocessSpectrum", params |-> params]
    /\ ret' = Returned(preprocessSpectrum(data, params))
    /\ UNCHANGED <<data, page>>

CallRemoveOutliers(threshold) ==
    /\ call = NoCall
    /\ call' = [fn |-> "removeOutliers", threshold |-> threshold]
    /\ ret' = Returned(removeOutliers(data, threshold))
    /\ UNCHANGED <<data, page>>

CallPolynomialBaselineCorrection(degree) ==
    /\ call = NoCall
    /\ call' = [fn |-> "polynomialBaselineCorrection", degree |-> degree]
    /\ ret' = Returned(polynomialBaselineCorrection(data, degree))
    /\ UNCHANGED <<data, page>>

Next ==
    \/ \E params \in PreprocessingParams : CallPreprocessSpectrum(params)
    \/ \E threshold \in ThresholdValues : CallRemoveOutliers(threshold)
    \/ \E degree \in 0..MaxDegree : CallPolynomialBaselineCorrection(degree)

Spec == Init /\ [][Next]_vars

(***************************************************************************)
(* Specification of peak detection: a spectrum is drawn, and detectPeaks   *)
(* is applied to it.                                                       *)
(***************************************************************************)
DetectIntensityValues == {<<-1, 1>>, <<0, 1>>, <<2, 1>>, <<3, 1>>}

ProminenceValues == {<<1, 10>>, <<1, 1>>, <<3, 1>>}

MinHeightValues == {<<-1, 1>>, <<1, 20>>, <<2, 1>>, <<3, 1>>}

\* the spectrum [(500,0.1),(502,0.3),(504,0.9),(506,0.3),(508,0.1)]
ScenarioSpectrum ==
    <<Point(<<500, 1>>, <<1, 10>>), Point(<<502, 1>>, <<3, 10>>),
      Point(<<504, 1>>, <<9, 10>>), Point(<<506, 1>>, <<3, 10>>),
      Point(<<508, 1>>, <<1, 10>>)>>

InitDetect ==
    /\ data \in SpectraUpTo(MaxDetectLen, DetectGapPatterns, DetectIntensityValues)
                   \cup {ScenarioSpectrum}
    /\ call = NoCall
    /\ ret = Returned(<<>>)
    /\ page = NoPage

CallDetectPeaks(prominence, minHeight) ==
    /\ call = NoCall
    /\ call' = [fn |-> "detectPeaks", prominence |-> prominence,
                minHeight |-> minHeight]
    /\ ret' = Returned(detectPeaks(data, prominence, minHeight))
    /\ UNCHANGED <<data, page>>

NextDetect ==
    \E prominence \in ProminenceValues, minHeight \in MinHeightValues :
        CallDetectPeaks(prominence, minHeight)

SpecDetect == InitDetect /\ [][NextDetect]_vars

(***************************************************************************)
(* Specification of noise reduction: a spectrum is drawn, and the          *)
(* smoothing filter is applied to it, directly or as the only enabled      *)
(* stage of the pipeline.                                                  *)
(***************************************************************************)
\* window lengths are drawn from 1..MaxWindow (the slider gives 3..15, a
\* direct call may pass an even length)
WindowLengths == 1..MaxWindow

\* the polynomial-order slider gives 1..5
PolynomialOrders == {1, 2, 3, 5}

SmoothingParams ==
    [outlier_removal : {Absent},
     noise_reduction : {[present |-> TRUE, window_length |-> w,
                         polynomial_order |-> o] :
                            w \in WindowLengths, o \in PolynomialOrders},
     baseline_correction : {Absent},
     normalization : {Absent}]

InitSmooth ==
    /\ data \in SpectraUpTo(MaxLen, GapPatterns, IntensityValues)
    /\ call = NoCall
    /\ ret = Returned(<<>>)
    /\ page = NoPage

CallSavitzkyGolayFilter(windowLength, polynomialOrder) ==
    /\ call = NoCall
    /\ call' = [fn |-> "savitzkyGolayFilter", windowLength |-> windowLength,
                polynomialOrder |-> polynomialOrder]
    /\ ret' = Returned(savitzkyGolayFilter(data, windowLength, polynomialOrder))
    /\ UNCHANGED <<data, page>>

CallPreprocessSmoothing(params) ==
    /\ call = NoCall
    /\ call' = [fn |-> "preprocessSpectrum", params |-> params]
    /\ ret' = Returned(preprocessSpectrum(data, params))
    /\ UNCHANGED <<data, page>>

NextSmooth ==
    \/ \E w \in WindowLengths, o \in PolynomialOrders :
          CallSavitzkyGolayFilter(w, o)
    \/ \E params \in SmoothingParams : CallPreprocessSmoothing(params)

SpecSmooth == InitSmooth /\ [][NextSmooth]_vars

(***************************************************************************)
(* Specification of normalization: a spectrum is drawn, normalizeSpectrum  *)
(* is applied to it, and may be applied once more to its own result.       *)
(***************************************************************************)
NormalizeIntensityValues == {<<-2, 1>>, <<-1, 1>>, <<0, 1>>, <<1, 1>>, <<3, 1>>}

NormalizationMethods == {"max", "area"}

InitNormalize ==
    /\ data \in SpectraUpTo(MaxLen, GapPatterns, NormalizeIntensityValues)
    /\ call = NoCall
    /\ ret = Returned(<<>>)
    /\ page = NoPage

CallNormalizeSpectrum(method) ==
    /\ call = NoCall
    /\ call' = [fn |-> "normalizeSpectrum", method |-> method, times |-> 1,
                first |-> <<>>]
    /\ ret' = Returned(normalizeSpectrum(data, method))
    /\ UNCHANGED <<data, page>>

\* normalizeSpectrum applied to the spectrum the first application returned
CallNormalizeSpectrumAgain ==
    /\ call # NoCall
    /\ call.times = 1
    /\ call' = [call EXCEPT !.times = 2, !.first = ret.value]
    /\ ret' = Returned(normalizeSpectrum(ret.value, call.method))
    /\ UNCHANGED <<data, page>>

NextNormalize ==
    \/ \E method \in NormalizationMethods : CallNormalizeSpectrum(method)
    \/ CallNormalizeSpectrumAgain

SpecNormalize == InitNormalize /\ [][NextNormalize]_vars

(***************************************************************************)
(* Specification of curve fitting: a spectrum is drawn, and a peak-shape   *)
(* model or a fit is applied to it with a drawn peak list.                 *)
(***************************************************************************)
PositionValues == {<<1, 1>>, <<3, 1>>}

AmplitudeValues == {<<1, 2>>, <<2, 1>>}

WidthValues == {<<0, 1>>, <<1, 1>>, <<2, 1>>}

PeakValues ==
    {[position |-> c, amplitude |-> a, fwhm |-> w, area |-> Zero,
      prominence |-> a] :
        c \in PositionValues, a \in AmplitudeValues, w \in WidthValues}

PeakLists == UNION {[1..k -> PeakValues] : k \in 0..MaxPeaks}

InitFit ==
    /\ data \in SpectraUpTo(MaxFitLen, GapPatterns, {Zero})
    /\ call = NoCall
    /\ ret = Returned(<<>>)
    /\ page = NoPage

CallGaussian(x, amplitude, center, width) ==
    /\ call = NoCall
    /\ call' = [fn |-> "gaussian", x |-> x, amplitude |-> amplitude,
                center |-> center, width |-> width]
    /\ ret' = Returned(gaussian(x, amplitude, center, width))
    /\ UNCHANGED <<data, page>>

CallLorentzian(x, amplitude, center, width) ==
    /\ call = NoCall
    /\ call' = [fn |-> "lorentzian", x |-> x, amplitude |-> amplitude,
                center |-> center, width |-> width]
    /\ ret' = Returned(lorentzian(x, amplitude, center, width))
    /\ UNCHANGED <<data, page>>

CallFitGaussian(peaks) ==
    /\ call = NoCall
    /\ call' = [fn |-> "fitGaussian", peaks |-> peaks]
    /\ ret' = Returned(fitGaussian(data, peaks))
    /\ UNCHANGED <<data, page>>

CallFitLorentzian(peaks) ==
    /\ call = NoCall
    /\ call' = [fn |-> "fitLorentzian", peaks |-> peaks]
    /\ ret' = Returned(fitLorentzian(data, peaks))
    /\ UNCHANGED <<data, page>>

NextFit ==
    \/ \E x \in PositionValues, a \in AmplitudeValues, c \in PositionValues,
          w \in WidthValues : CallGaussian(x, a, c, w)
    \/ \E x \in PositionValues, a \in AmplitudeValues, c \in PositionValues,
          w \in WidthValues : CallLorentzian(x, a, c, w)
    \/ \E peaks \in PeakLists : CallFitGaussian(peaks)
    \/ \E peaks \in PeakLists : CallFitLorentzian(peaks)

SpecFit == InitFit /\ [][NextFit]_vars

(***************************************************************************)
(* Specification of the analysis run: a spectrum is drawn, and the         *)
(* analysis is run on it with a fitting model and detection parameters.    *)
(***************************************************************************)
FittingModels == {"gaussian", "lorentzian", "voigt"}

AnalyzeIntensityValues == {<<0, 1>>, <<1, 4>>, <<3, 1>>}

\* evenly spaced wavelengths, which keep the numerators and denominators of
\* the sums of squared Lorentzian residuals within 32 bits
AnalyzeGapPatterns == {<<1, 1>>, <<2, 2>>}

\* the sliders give 0.01 .. 0.5
AnalyzeProminenceValues == {<<1, 10>>, <<1, 2>>}

AnalyzeMinHeightValues == {<<1, 20>>, <<1, 2>>}

InitAnalyze ==
    /\ data \in (SpectraUpTo(MaxDetectLen, AnalyzeGapPatterns,
                              AnalyzeIntensityValues)
                    \ {<<>>}) \cup {ScenarioSpectrum}
    /\ call = NoCall
    /\ ret = Returned(<<>>)
    /\ page = NoPage

\* an analysis run on a loaded spectrum (the run returns at once when the
\* spectrum is empty)
HandleAnalyze(model, prominence, minHeight) ==
    /\ call = NoCall
    /\ Len(data) # 0
    /\ call' = [fn |-> "handleAnalyze", model |-> model,
                prominence |-> prominence, minHeight |-> minHeight]
    /\ ret' = Returned(handleAnalyze(data, model, prominence, minHeight))
    /\ UNCHANGED <<data, page>>

NextAnalyze ==
    \E model \in FittingModels, prominence \in AnalyzeProminenceValues,
       minHeight \in AnalyzeMinHeightValues :
        HandleAnalyze(model, prominence, minHeight)

SpecAnalyze == InitAnalyze /\ [][NextAnalyze]_vars

(***************************************************************************)
(* Specification of goodness of fit: a spectrum is drawn, and               *)
(* calculateRSquared or calculateRMSE is applied to its intensities and a  *)
(* drawn sequence of predicted values, which may be shorter or longer.     *)
(***************************************************************************)
ObservedValues == {<<-1, 1>>, <<0, 1>>, <<2, 1>>}

\* the observed values and e^(-1), a value of a Gaussian curve
PredictedValues == {Lift(y) : y \in ObservedValues} \cup {MathExp(R(-1))}

PredictedLists == UNION {[1..k -> PredictedValues] : k \in 0..MaxObserved}

InitGoodness ==
    /\ data \in SpectraUpTo(MaxObserved, {<<1, 1>>}, ObservedValues)
    /\ call = NoCall
    /\ ret = Returned(<<>>)
    /\ page = NoPage

CallCalculateRSquared(predicted) ==
    /\ call = NoCall
    /\ call' = [fn |-> "calculateRSquared", predicted |-> predicted]
    /\ ret' = Returned(calculateRSquared(Intensities(data), predicted))
    /\ UNCHANGED <<data, page>>

CallCalculateRMSE(predicted) ==
    /\ call = NoCall
    /\ call' = [fn |-> "calculateRMSE", predicted |-> predicted]
    /\ ret' = Returned(calculateRMSE(Intensities(data), predicted))
    /\ UNCHANGED <<data, page>>

NextGoodness ==
    \/ \E predicted \in PredictedLists : CallCalculateRSquared(predicted)
    \/ \E predicted \in PredictedLists : CallCalculateRMSE(predicted)

SpecGoodness == InitGoodness /\ [][NextGoodness]_vars

(***************************************************************************)
(* Specification of statistics: a spectrum is drawn, and                   *)
(* calculateStatistics is applied to it.                                   *)
(***************************************************************************)
InitStatistics ==
    /\ data \in SpectraUpTo(MaxLen, GapPatterns, IntensityValues)
    /\ call = NoCall
    /\ ret = Returned(<<>>)
    /\ page = NoPage

CallCalculateStatistics ==
    /\ call = NoCall
    /\ call' = [fn |-> "calculateStatistics"]
    /\ ret' = Returned(calculateStatistics(data))
    /\ UNCHANGED <<data, page>>

NextStatistics == CallCalculateStatistics

SpecStatistics == InitStatistics /\ [][NextStatistics]_vars

(***************************************************************************)
(* Specification of the analysis page: the page is constructed, loads the  *)
(* spectrum of its sample, and the user changes the fitting controls and   *)
(* runs the analysis any number of times.                                  *)
(***************************************************************************)
\* the spectra a sample can hold
PageSpectra ==
    SpectraUpTo(MaxPageLen, {<<1, 1>>}, AnalyzeIntensityValues)

\* the call of a run that throws: none, or one of the calls inside the try
Raises ==
    {"none", "detectPeaks", "fit", "calculateRSquared", "calculateStatistics"}

InitPage ==
    /\ data = <<>>
    /\ call = NoCall
    /\ ret = Returned(<<>>)
    /\ page = InitialPage

\* loadData: the sample and its spectrum are loaded
LoadData(d) ==
    /\ page.mounted /\ page.loading
    /\ data' = d
    /\ page' = [page EXCEPT !.loading = FALSE]
    /\ UNCHANGED <<call, ret>>

\* loadData: getSample or getSpectralData fails
LoadDataFails ==
    /\ page.mounted /\ page.loading
    /\ page' = [page EXCEPT !.loading = FALSE,
                            !.toasts = <<"Error loading data">>]
    /\ UNCHANGED <<data, call, ret>>

SetModel(model) ==
    /\ page.mounted /\ ~page.loading
    /\ page' = [page EXCEPT !.model = model]
    /\ UNCHANGED <<data, call, ret>>

SetProminence(prominence) ==
    /\ page.mounted /\ ~page.loading
    /\ page' = [page EXCEPT !.prominence = prominence]
    /\ UNCHANGED <<data, call, ret>>

SetMinHeight(minHeight) ==
    /\ page.mounted /\ ~page.loading
    /\ page' = [page EXCEPT !.minHeight = minHeight]
    /\ UNCHANGED <<data, call, ret>>

\* a click on Run Analysis, which is disabled while analyzing
ClickRunAnalysis(raises) ==
    /\ page.mounted /\ ~page.loading
    /\ ~page.analyzing
    /\ page' = handleAnalyzeUntilAwait(page, data, raises)
    /\ UNCHANGED <<data, call, ret>>

\* the promise of saveAnalysisResult resolves or rejects
SaveAnalysisResultSettles(resolved) ==
    /\ page.mounted /\ page.pending.awaiting
    /\ page' = handleAnalyzeAfterAwait(page, resolved)
    /\ UNCHANGED <<data, call, ret>>

SaveSettles == \E resolved \in BOOLEAN : SaveAnalysisResultSettles(resolved)

NextPage ==
    \/ \E d \in PageSpectra : LoadData(d)
    \/ LoadDataFails
    \/ \E model \in FittingModels : SetModel(model)
    \/ \E prominence \in AnalyzeProminenceValues : SetProminence(prominence)
    \/ \E minHeight \in AnalyzeMinHeightValues : SetMinHeight(minHeight)
    \/ \E raises \in Raises : ClickRunAnalysis(raises)
    \/ SaveSettles

SpecPage == InitPage /\ [][NextPage]_vars

\* the promise of saveAnalysisResult settles
SpecPageFair == SpecPage /\ WF_vars(SaveSettles)

(***************************************************************************)
(* Specification of ingestion: the rows of a file are drawn, and           *)
(* parseSpectralData is applied to them.                                   *)
(***************************************************************************)
\* a header text, an empty cell, and two numbers
CellValues == {<<"n", "m">>, <<>>, <<"1">>, <<"2">>}

\* rows of no, one and two cells, and a row of three cells
RowValues ==
    UNION {[1..k -> CellValues] : k \in 0..2} \cup {<<<<"2">>, <<"1">>, <<"n", "m">>>>}

RawTables == UNION {[1..k -> RowValues] : k \in 0..MaxRows}

InitParse ==
    /\ data \in RawTables
    /\ call = NoCall
    /\ ret = Returned(<<>>)
    /\ page = NoPage

CallParseSpectralData ==
    /\ call = NoCall
    /\ call' = [fn |-> "parseSpectralData"]
    /\ ret' = parseSpectralData(data)
    /\ UNCHANGED <<data, page>>

NextParse == CallParseSpectralData

SpecParse == InitParse /\ [][NextParse]_vars

(***************************************************************************)
(* Properties of the preprocessing pipeline.                               *)
(***************************************************************************)
\* C1: preprocessSpectrum applies the enabled stages in the order outlier
\* removal, noise reduction, baseline correction, normalization: each enabled
\* stage receives the output of the previous enabled stage (the raw input if
\* none ran before it), and the result is the output of the last enabled stage.
C1_StageOrder ==
    call.fn = "preprocessSpectrum" =>
        LET p == call.params
            afterOutliers ==
                IF p.outlier_removal.present /\ p.outlier_removal.enabled
                THEN removeOutliers(data, p.outlier_removal.threshold)
                ELSE data
            afterNoise ==
                IF p.noise_reduction.present
                THEN savitzkyGolayFilter(afterOutliers,
                                         p.noise_reduction.window_length,
                                         p.noise_reduction.polynomial_order)
                ELSE afterOutliers
            afterBaseline ==
                IF /\ p.baseline_correction.present
                   /\ p.baseline_correction.method = "polynomial"
                THEN polynomialBaselineCorrection(afterNoise,
                        IF p.baseline_correction.polynomial_degree = 0 THEN 2
                        ELSE p.baseline_correction.polynomial_degree)
                ELSE afterNoise
            afterNormalization ==
                IF p.normalization.present
                THEN normalizeSpectrum(afterBaseline, p.normalization.method)
                ELSE afterBaseline
        IN  /\ ~ret.threw
            /\ ret.value = afterNormalization

\* a run with all four stages enabled in which outlier removal dropped a
\* point and the later stages changed the intensities
C1_Witness ==
    /\ call.fn = "preprocessSpectrum"
    /\ call.params.outlier_removal.present
    /\ call.params.outlier_removal.enabled
    /\ call.params.noise_reduction.present
    /\ call.params.baseline_correction.present
    /\ call.params.baseline_correction.method = "polynomial"
    /\ call.params.normalization.present
    /\ Len(ret.value) > 0
    /\ Len(ret.value) < Len(data)
    /\ \E i \in 1..Len(ret.value) : Gt(ret.value[i].intensity, Zero)

\* C2: a disabled stage is the identity and never an error: with every
\* sub-config absent, or outlier_removal disabled, or baseline_correction
\* set to "als", and no other stage enabled, the result equals the input
\* point for point.
C2_DisabledStagesAreIdentity ==
    (/\ call.fn = "preprocessSpectrum"
     /\ ~(call.params.outlier_removal.present /\ call.params.outlier_removal.enabled)
     /\ ~call.params.noise_reduction.present
     /\ ~(/\ call.params.baseline_correction.present
          /\ call.params.baseline_correction.method # "als")
     /\ ~call.params.normalization.present)
    => /\ ~ret.threw
       /\ Len(ret.value) = Len(data)
       /\ \A i \in 1..Len(data) : ret.value[i] = data[i]

\* a run on a spectrum with an outlier and a sloped baseline, with
\* outlier_removal disabled and baseline_correction set to "als"
C2_Witness ==
    /\ call.fn = "preprocessSpectrum"
    /\ call.params.outlier_removal.present
    /\ ~call.params.outlier_removal.enabled
    /\ ~call.params.noise_reduction.present
    /\ call.params.baseline_correction.present
    /\ call.params.baseline_correction.method = "als"
    /\ ~call.params.normalization.present
    /\ Len(removeOutliers(data, call.params.outlier_removal.threshold)) < Len(data)
    /\ ret.value = data

(***************************************************************************)
(* Properties of polynomial baseline correction.                           *)
(***************************************************************************)
\* C6: for every spectrum and every polynomial degree (also with no more
\* points than the degree), every intensity in the output of
\* polynomialBaselineCorrection is >= 0.
C6_BaselineNonNegative ==
    call.fn = "polynomialBaselineCorrection" =>
        \A i \in 1..Len(ret.value) : Ge(ret.value[i].intensity, Zero)

\* the k-th finite difference of the sequence s
RECURSIVE FiniteDifference(_, _)
FiniteDifference(s, k) ==
    IF k = 0 THEN s
    ELSE LET t == FiniteDifference(s, k - 1)
         IN  Tabulate(LAMBDA i : Sub(t[i + 1], t[i]),
                      IF Len(t) = 0 THEN 0 ELSE Len(t) - 1)

MeetsZeroPivot(A, B) ==
    \E i \in 1..Len(B) :
        LET S == ForwardElimination([A |-> A, B |-> B], i - 1)
        IN  StrictEq(S.A[MaxRow(S, i)][i], Zero)

\* C8: a degenerate polynomial fit is surfaced as a failure: whenever the
\* elimination meets a zero pivot after row swapping, baseline correction
\* fails with an error instead of returning a corrected spectrum.
C8_SingularFitFails ==
    (/\ call.fn = "polynomialBaselineCorrection"
     /\ Len(data) > 0
     /\ LET S == NormalEquations(IndexValues(data), Intensities(data), call.degree)
        IN  MeetsZeroPivot(S.A, S.B))
    => ret.threw

(***************************************************************************)
(* Properties of outlier removal.                                          *)
(***************************************************************************)
\* s is a subsequence of t: s is t with some elements left out
RECURSIVE IsSubsequence(_, _)
IsSubsequence(s, t) ==
    IF Len(s) = 0 THEN TRUE
    ELSE IF Len(t) = 0 THEN FALSE
    ELSE IF s[1] = t[1] THEN IsSubsequence(Tail(s), Tail(t))
    ELSE IsSubsequence(s, Tail(t))

\* C9: the output of removeOutliers is a subsequence of its input: every
\* output point is an input point, in the same relative order, and the
\* output has no more points than the input.
C9_OutliersSubsequence ==
    call.fn = "removeOutliers" =>
        /\ ~ret.threw
        /\ Len(ret.value) <= Len(data)
        /\ IsSubsequence(ret.value, data)

\* a call that dropped some points and kept at least two others
C9_Witness ==
    /\ call.fn = "removeOutliers"
    /\ Len(ret.value) >= 2
    /\ Len(ret.value) < Len(data)

C3_DetectPeaksExact ==
    call.fn = "detectPeaks" =>
        LET n == Len(data)
            y(i) == data[i].intensity
            lower(i) == IF Lt(y(i - 1), y(i + 1)) THEN y(i - 1) ELSE y(i + 1)
            Idx == {i \in 2..(n - 1) :
                      /\ Gt(y(i), y(i - 1))
                      /\ Gt(y(i), y(i + 1))
                      /\ Ge(y(i), call.minHeight)
                      /\ Ge(Sub(y(i), lower(i)), call.prominence)}
            kth(k) == CHOOSE i \in Idx : Cardinality({j \in Idx : j < i}) = k - 1
        IN  /\ ~ret.threw
            /\ Len(ret.value) = Cardinality(Idx)
            /\ \A k \in 1..Len(ret.value) :
                 /\ ret.value[k].position = data[kth(k)].wavelength
                 /\ ret.value[k].amplitude = y(kth(k))
                 /\ ret.value[k].prominence = Sub(y(kth(k)), lower(kth(k)))
            /\ n < 3 => ret.value = <<>>

\* two peaks are returned in scan order, the first exactly as high as
\* minHeight
C3_Witness ==
    /\ call.fn = "detectPeaks"
    /\ Len(data) = 5
    /\ Len(ret.value) = 2
    /\ ret.value[1].amplitude = call.minHeight
    /\ ret.value[2].amplitude # call.minHeight
    /\ Lt(ret.value[1].position, ret.value[2].position)

\* a local maximum is left out because its prominence is below the threshold
C3_WitnessFiltered ==
    /\ call.fn = "detectPeaks"
    /\ Len(ret.value) = 1
    /\ \E i \in 2..(Len(data) - 1) :
         /\ IsLocalMaximum(data, i, call.minHeight)
         /\ data[i].wavelength # ret.value[1].position

DefaultDetection ==
    /\ call.fn = "detectPeaks"
    /\ call.prominence = <<1, 10>>
    /\ call.minHeight = <<1, 20>>

\* C4 as stated: on [(500,0.1),(502,0.3),(504,0.9),(506,0.3),(508,0.1)] with
\* min_height 0.05 and prominence 0.1, detectPeaks returns exactly one peak
\* with position 504, amplitude 0.9, fwhm 8 and prominence 0.6.
C4_ScenarioAsStated ==
    (DefaultDetection /\ data = ScenarioSpectrum) =>
        /\ Len(ret.value) = 1
        /\ ret.value[1].position = <<504, 1>>
        /\ ret.value[1].amplitude = <<9, 10>>
        /\ ret.value[1].fwhm = <<8, 1>>
        /\ ret.value[1].prominence = <<3, 5>>

\* C4 amended: the same scenario returns exactly one peak with position 504,
\* amplitude 0.9, prominence 0.6 and fwhm 4: the walks stop at 502 and 506,
\* the first points whose intensity 0.3 is at or below the half-max 0.45.
C4_ScenarioPeak ==
    (DefaultDetection /\ data = ScenarioSpectrum) =>
        /\ ~ret.threw
        /\ Len(ret.value) = 1
        /\ ret.value[1].position = <<504, 1>>
        /\ ret.value[1].amplitude = <<9, 10>>
        /\ ret.value[1].fwhm = <<4, 1>>
        /\ ret.value[1].prominence = <<3, 5>>

\* detectPeaks has run on the scenario with the default parameters
C4_Witness ==
    /\ DefaultDetection
    /\ data = ScenarioSpectrum
    /\ Len(ret.value) > 0

\* C5: on a spectrum sorted ascending by wavelength, every peak returned by
\* detectPeaks has fwhm >= 0 and a position within [min(wavelength),
\* max(wavelength)] of the input.
C5_FwhmNonNegativePositionInRange ==
    (/\ call.fn = "detectPeaks"
     /\ \A i \in 1..(Len(data) - 1) : Le(data[i].wavelength, data[i + 1].wavelength))
    => \A k \in 1..Len(ret.value) :
         /\ Ge(ret.value[k].fwhm, Zero)
         /\ \E i \in 1..Len(data) : Le(data[i].wavelength, ret.value[k].position)
         /\ \E i \in 1..Len(data) : Le(ret.value[k].position, data[i].wavelength)

\* a peak whose walks went beyond its neighbours is returned with fwhm > 0
C5_Witness ==
    /\ call.fn = "detectPeaks"
    /\ \E k \in 1..Len(ret.value) :
         /\ Gt(ret.value[k].fwhm, <<3, 1>>)
         /\ Gt(ret.value[k].position, data[1].wavelength)

(***************************************************************************)
(* Properties of noise reduction.                                          *)
(***************************************************************************)
\* ys[lo] + ... + ys[hi]
RECURSIVE SumRange(_, _, _)
SumRange(ys, lo, hi) ==
    IF lo > hi THEN Zero ELSE Add(SumRange(ys, lo, hi - 1), ys[hi])

\* the window length the smoothing call was made with
CalledWindow ==
    IF call.fn = "savitzkyGolayFilter" THEN call.windowLength
    ELSE call.params.noise_reduction.window_length

\* the polynomial order the smoothing call was made with
CalledOrder ==
    IF call.fn = "savitzkyGolayFilter" THEN call.polynomialOrder
    ELSE call.params.noise_reduction.polynomial_order

\* C11: noise reduction is a centered moving average with truncated boundary
\* windows: with h = floor(w / 2) after an even window length w is incremented
\* to the next odd number, the output at every index i keeps the wavelength and
\* has as intensity the mean of the input intensities at the indices
\* max(first, i - h) .. min(last, i + h), with no padding or reflection.
C11_MovingAverageTruncatedWindows ==
    call # NoCall =>
        LET w == IF CalledWindow % 2 = 0 THEN CalledWindow + 1 ELSE CalledWindow
            h == (w - 1) \div 2
            n == Len(data)
            lo(i) == IF i - h < 1 THEN 1 ELSE i - h
            hi(i) == IF i + h > n THEN n ELSE i + h
        IN  /\ ~ret.threw
            /\ Len(ret.value) = n
            /\ \A i \in 1..n :
                  /\ ret.value[i].wavelength = data[i].wavelength
                  /\ ret.value[i].intensity =
                        Div(SumRange(Intensities(data), lo(i), hi(i)),
                            R(hi(i) - lo(i) + 1))

\* a call whose window is truncated at both ends of the spectrum and changes
\* the first and the last intensity
C11_Witness ==
    /\ call # NoCall
    /\ CalledWindow \div 2 >= 1
    /\ Len(data) >= 3
    /\ ret.value[1].intensity # data[1].intensity
    /\ ret.value[Len(data)].intensity # data[Len(data)].intensity
    /\ ret.value[2].intensity # data[2].intensity

\* C12: the polynomial order does not influence noise reduction: a run of the
\* filter, or of the pipeline with only noise reduction enabled, returns the
\* spectrum that the run differing only in polynomial_order returns.
C12_PolynomialOrderIrrelevant ==
    call # NoCall =>
        \A o \in PolynomialOrders :
            ret.value =
                IF call.fn = "savitzkyGolayFilter"
                THEN savitzkyGolayFilter(data, call.windowLength, o)
                ELSE preprocessSpectrum(data,
                        [call.params EXCEPT !.noise_reduction.polynomial_order = o])

\* a pipeline run whose smoothing changes the spectrum, with an order that a
\* least-squares smoother of that window would interpolate with
C12_Witness ==
    /\ call # NoCall
    /\ call.fn = "preprocessSpectrum"
    /\ CalledOrder >= CalledWindow - 1
    /\ ret.value # data

(***************************************************************************)
(* Properties of normalization.                                            *)
(***************************************************************************)
\* the largest of the intensities of a spectrum that has points
LargestIntensity(d) ==
    CHOOSE m \in {d[i].intensity : i \in 1..Len(d)} :
        \A i \in 1..Len(d) : Le(d[i].intensity, m)

\* the sum of the trapezoids between consecutive points
TrapezoidArea(d) ==
    SumRange(Tabulate(LAMBDA i :
                 IF i = 1 THEN Zero
                 ELSE Mul(Sub(d[i].wavelength, d[i - 1].wavelength),
                          Div(Add(d[i].intensity, d[i - 1].intensity), R(2))),
                 Len(d)), 1, Len(d))

\* every intensity of d divided by q, the wavelengths kept
DividedBy(d, q) ==
    Tabulate(LAMBDA i : Point(d[i].wavelength, Div(d[i].intensity, q)), Len(d))

\* C13: normalization never divides by zero: with method "max" the spectrum
\* is returned unchanged when its maximum intensity is 0, with method "area"
\* when its trapezoidal area is 0 (single-point spectra and spectra whose
\* wavelengths are all equal included); otherwise every intensity is divided
\* by the maximum, respectively by the area.
C13_NormalizationGuardsZero ==
    (call # NoCall /\ call.times = 1 /\ Len(data) > 0) =>
        /\ ~ret.threw
        /\ call.method = "max" =>
              ret.value = IF LargestIntensity(data) = Zero THEN data
                          ELSE DividedBy(data, LargestIntensity(data))
        /\ call.method = "area" =>
              ret.value = IF TrapezoidArea(data) = Zero THEN data
                          ELSE DividedBy(data, TrapezoidArea(data))

\* an area normalization of a spectrum of distinct wavelengths and nonzero
\* intensities whose area is 0
C13_Witness ==
    /\ call # NoCall
    /\ call.times = 1
    /\ call.method = "area"
    /\ Len(data) >= 2
    /\ \A i \in 1..Len(data) : data[i].intensity # Zero
    /\ \A i \in 2..Len(data) : data[i].wavelength # data[i - 1].wavelength
    /\ TrapezoidArea(data) = Zero
    /\ ret.value = data

\* C14 as stated: for every spectrum, max normalization applied twice gives
\* the result of applying it once, and the maximum intensity of the
\* once-normalized spectrum is 1.
C14_MaxNormalizationIdempotent ==
    (call # NoCall /\ call.times = 2 /\ call.method = "max" /\ Len(data) > 0) =>
        /\ ret.value = call.first
        /\ LargestIntensity(call.first) = One

\* C14 amended: for every spectrum whose maximum intensity is positive, max
\* normalization applied twice gives the result of applying it once, and the
\* maximum intensity of the once-normalized spectrum is 1.
C14_MaxNormalizationIdempotentPositiveMax ==
    (/\ call # NoCall
     /\ call.times = 2
     /\ call.method = "max"
     /\ Len(data) > 0
     /\ Gt(LargestIntensity(data), Zero)) =>
        /\ ret.value = call.first
        /\ LargestIntensity(call.first) = One

\* a second max normalization of a spectrum with a positive maximum other
\* than 1 and a negative intensity
C14_Witness ==
    /\ call # NoCall
    /\ call.times = 2
    /\ call.method = "max"
    /\ Len(data) >= 2
    /\ Gt(LargestIntensity(data), One)
    /\ \E i \in 1..Len(data) : Lt(data[i].intensity, Zero)
    /\ call.first # data
    /\ ret.value = call.first

\* C15: for every spectrum whose trapezoidal area is not 0, positive or
\* negative, the trapezoidal area of the area-normalized spectrum is 1.
C15_AreaNormalizedHasUnitArea ==
    (/\ call # NoCall
     /\ call.times = 1
     /\ call.method = "area"
     /\ TrapezoidArea(data) # Zero) =>
        TrapezoidArea(ret.value) = One

\* an area normalization of a spectrum of negative area
C15_Witness ==
    /\ call # NoCall
    /\ call.times = 1
    /\ call.method = "area"
    /\ Lt(TrapezoidArea(data), Zero)
    /\ TrapezoidArea(ret.value) = One

(***************************************************************************)
(* Properties of curve fitting.                                            *)
(***************************************************************************)
\* the value at x of the Lorentzian of a peak: amplitude * h^2 / (h^2 + dx^2)
\* with h = fwhm / 2, and 0 for a peak of no width
LorentzianOfPeak(x, peak) ==
    LET h == Div(peak.fwhm, R(2))
        dx == Sub(x, peak.position)
    IN  IF peak.fwhm = Zero THEN ExpZero
        ELSE Lift(Div(Mul(peak.amplitude, Mul(h, h)),
                      Add(Mul(h, h), Mul(dx, dx))))

\* the value at x of the Gaussian of a peak: amplitude * e^(-q) with
\* q = dx^2 * 2.355^2 / (2 * fwhm^2), and 0 for a peak of no width
GaussianOfPeak(x, peak) ==
    LET dx == Sub(x, peak.position)
        q == Div(Mul(Mul(dx, dx), Mul(FwhmPerSigma, FwhmPerSigma)),
                 Mul(R(2), Mul(peak.fwhm, peak.fwhm)))
    IN  IF peak.fwhm = Zero \/ peak.amplitude = Zero THEN ExpZero
        ELSE <<<<q, peak.amplitude>>>>

\* C16: curve fitting is a superposition on the input grid: the fitted
\* spectrum has the length and the wavelengths of the input, in the same
\* order, and its intensity at each wavelength is the sum over all peaks of
\* the peak's model value computed from its amplitude, position and fwhm
\* (Lorentzian half-width = fwhm / 2); an empty peak list gives zeros.
C16_FitIsSuperposition ==
    (call # NoCall /\ call.fn \in {"fitGaussian", "fitLorentzian"}) =>
        /\ ~ret.threw
        /\ Len(ret.value) = Len(data)
        /\ \A i \in 1..Len(data) :
              /\ ret.value[i].wavelength = data[i].wavelength
              /\ ret.value[i].intensity =
                    ExpSum(Tabulate(LAMBDA k :
                        IF call.fn = "fitGaussian"
                        THEN GaussianOfPeak(data[i].wavelength, call.peaks[k])
                        ELSE LorentzianOfPeak(data[i].wavelength, call.peaks[k]),
                        Len(call.peaks)))
              /\ call.peaks = <<>> => ret.value[i].intensity = ExpZero

\* a Gaussian fit of two peaks of different positions and nonzero widths that
\* both contribute to one point
C16_Witness ==
    /\ call # NoCall
    /\ call.fn = "fitGaussian"
    /\ Len(call.peaks) = 2
    /\ call.peaks[1].position # call.peaks[2].position
    /\ call.peaks[1].fwhm # Zero
    /\ call.peaks[2].fwhm # Zero
    /\ \E i \in 1..Len(data) : Len(ret.value[i].intensity) = 2

\* whether a peak of the list has no width
HasZeroWidthPeak(peaks) == \E k \in 1..Len(peaks) : peaks[k].fwhm = Zero

\* C17: a zero width never causes a division by zero in the peak-shape
\* models: gaussian returns 0 whenever sigma is 0 and lorentzian returns 0
\* whenever halfWidth is 0, for every x, x = center included, so a fit with a
\* peak whose fwhm is 0 has a finite intensity at every wavelength.
C17_ZeroWidthGivesZero ==
    call # NoCall =>
        /\ (call.fn \in {"gaussian", "lorentzian"} /\ call.width = Zero) =>
              ret.value = ExpZero
        /\ (call.fn \in {"fitGaussian", "fitLorentzian"}
              /\ HasZeroWidthPeak(call.peaks)) =>
              \A i \in 1..Len(ret.value) : ExpIsFinite(ret.value[i].intensity)

\* a Gaussian fit with a peak of no width that sits on a wavelength of the
\* spectrum
C17_Witness ==
    /\ call # NoCall
    /\ call.fn = "fitGaussian"
    /\ \E k \in 1..Len(call.peaks), i \in 1..Len(data) :
          /\ call.peaks[k].fwhm = Zero
          /\ call.peaks[k].position = data[i].wavelength
          /\ ExpIsFinite(ret.value[i].intensity)

(***************************************************************************)
(* Properties of the analysis run.                                         *)
(***************************************************************************)
\* the run with the Gaussian model on the same spectrum with the same
\* detection parameters
GaussianRun == handleAnalyze(data, "gaussian", call.prominence, call.minHeight)

\* C18: requesting the "voigt" model yields exactly the Gaussian result: an
\* analysis run with model "voigt" produces the fitted_data, r_squared and
\* rmse of the run with model "gaussian" on the same spectrum with the same
\* detection parameters, and only the stored model label differs.
C18_VoigtIsGaussian ==
    (call # NoCall /\ call.model = "voigt") =>
        /\ ret.value.peaks = GaussianRun.peaks
        /\ ret.value.fittingResult.present = GaussianRun.fittingResult.present
        /\ ret.value.fittingResult.present =>
              /\ ret.value.fittingResult.fitted_data =
                    GaussianRun.fittingResult.fitted_data
              /\ ret.value.fittingResult.r_squared =
                    GaussianRun.fittingResult.r_squared
              /\ ret.value.fittingResult.rmse = GaussianRun.fittingResult.rmse
              /\ ret.value.fittingResult.peaks = GaussianRun.fittingResult.peaks
              /\ ret.value.fittingResult.model = "voigt"
              /\ GaussianRun.fittingResult.model = "gaussian"

\* a Voigt run that detected a peak of nonzero width, for which the
\* Lorentzian run gives another curve and another R squared
C18_Witness ==
    /\ call # NoCall
    /\ call.model = "voigt"
    /\ ret.value.fittingResult.present
    /\ \E k \in 1..Len(ret.value.peaks) : ret.value.peaks[k].fwhm # Zero
    /\ LET l == handleAnalyze(data, "lorentzian", call.prominence, call.minHeight)
       IN  /\ l.fittingResult.fitted_data # ret.value.fittingResult.fitted_data
           /\ l.fittingResult.r_squared # ret.value.fittingResult.r_squared

(***************************************************************************)
(* Properties of goodness of fit.                                          *)
(***************************************************************************)
\* whether predicted is exactly the observed intensities of the spectrum
PredictedIsObserved ==
    call.predicted = Tabulate(LAMBDA i : Lift(data[i].intensity), Len(data))

\* whether all observed intensities of the spectrum are equal
ObservedIsFlat ==
    \A i \in 1..Len(data), j \in 1..Len(data) :
        data[i].intensity = data[j].intensity

\* C19 as stated: for every observed sequence, when predicted is exactly
\* equal to observed, calculateRSquared returns 1 and calculateRMSE returns 0.
C19_PerfectFit ==
    (call # NoCall /\ PredictedIsObserved) =>
        /\ call.fn = "calculateRSquared" => ret.value = Lift(One)
        /\ call.fn = "calculateRMSE" => ret.value = RootZero

\* C19 amended: when predicted is exactly equal to observed, calculateRMSE
\* returns 0 for every observed sequence, and calculateRSquared returns 1 for
\* every observed sequence whose values are not all equal (SS_total is not 0).
C19_PerfectFitOfVaryingData ==
    (call # NoCall /\ PredictedIsObserved) =>
        /\ (call.fn = "calculateRSquared" /\ ~ObservedIsFlat) =>
              ret.value = Lift(One)
        /\ call.fn = "calculateRMSE" => ret.value = RootZero

\* an R squared of observed values that differ, predicted exactly
C19_Witness ==
    /\ call # NoCall
    /\ call.fn = "calculateRSquared"
    /\ PredictedIsObserved
    /\ Len(data) >= 2
    /\ ~ObservedIsFlat
    /\ ret.value = Lift(One)

C21_MismatchedLengthsRejected ==
    (/\ call # NoCall
     /\ call.fn \in {"calculateRSquared", "calculateRMSE"}
     /\ Len(call.predicted) # Len(data))
        => ret.threw

\* C22: calculateStatistics on an empty spectrum returns mean_intensity,
\* std_intensity, max_intensity, min_intensity and total_area all equal to 0
\* and raises no error.
C22_EmptyStatisticsAllZero ==
    (call.fn = "calculateStatistics" /\ Len(data) = 0) =>
        /\ ~ret.threw
        /\ ret.value.mean_intensity = Zero
        /\ ret.value.std_intensity = RootZero
        /\ ret.value.max_intensity = Zero
        /\ ret.value.min_intensity = Zero
        /\ ret.value.total_area = Zero

\* the statistics of the empty spectrum have been calculated
C22_Witness ==
    /\ call.fn = "calculateStatistics"
    /\ Len(data) = 0
    /\ ~ret.threw
    /\ DOMAIN ret.value = {"mean_intensity", "std_intensity", "max_intensity",
                           "min_intensity", "total_area"}

(***************************************************************************)
(* Properties of the analysis page.                                        *)
(***************************************************************************)
\* the calls of the latest run
StepsOfRun == {page.steps[i] : i \in 1..Len(page.steps)}

\* the latest run detected peaks and found none
RunDetectedNoPeaks == "setPeaks" \in StepsOfRun /\ Len(page.peaks) = 0

\* the calls that fit the curve and score the fit
FitAndScoreSteps ==
    {"fitGaussian", "fitLorentzian", "calculateRSquared", "calculateRMSE",
     "setFittingResult"}

\* C23: an analysis run that detects zero peaks skips curve fitting and
\* R squared / RMSE and ends in the outcome "No peaks detected", which is not
\* the outcome "Analysis failed" of a run in which a step raised; no run ends
\* in two outcomes, and no run ends in "Analysis complete" with zero peaks.
C23_NoPeaksIsDistinctOutcome ==
    page.mounted =>
        /\ RunDetectedNoPeaks =>
              /\ page.toasts = <<"No peaks detected">>
              /\ StepsOfRun \cap FitAndScoreSteps = {}
              /\ ~page.pending.awaiting
        /\ Len(page.toasts) <= 1
        /\ page.toasts = <<"No peaks detected">> => RunDetectedNoPeaks
        /\ page.toasts = <<"Analysis complete">> => Len(page.peaks) > 0

\* a run on a loaded spectrum has detected no peak and reported it
C23_Witness ==
    /\ page.mounted
    /\ Len(data) > 0
    /\ RunDetectedNoPeaks
    /\ page.toasts = <<"No peaks detected">>
    /\ page.steps = <<"setAnalyzing(true)", "detectPeaks", "setPeaks", "toast",
                      "setAnalyzing(false)">>

\* the latest run made call a before call b, if it made both
CalledBefore(a, b) ==
    \A i, j \in 1..Len(page.steps) :
        (page.steps[i] = a /\ page.steps[j] = b) => i < j

\* the latest run started on a loaded spectrum, no call of it raised, and it
\* has reached its end or the await of saveAnalysisResult
RunWithoutError ==
    /\ page.mounted
    /\ Len(data) > 0
    /\ "setAnalyzing(true)" \in StepsOfRun
    /\ page.toasts # <<"Analysis failed">>

\* C24: every analysis run on a non-empty spectrum executes peak detection,
\* then, only if at least one peak was detected, curve fitting and
\* R squared / RMSE, then statistics; the statistics step runs in every such
\* run, whether or not any peak was detected.
C24_StepsInOrderStatisticsAlways ==
    RunWithoutError =>
        /\ "detectPeaks" \in StepsOfRun
        /\ \A fit \in {"fitGaussian", "fitLorentzian"} :
              /\ CalledBefore("detectPeaks", fit)
              /\ CalledBefore(fit, "calculateRSquared")
        /\ CalledBefore("calculateRSquared", "calculateRMSE")
        /\ CalledBefore("calculateRMSE", "calculateStatistics")
        /\ CalledBefore("detectPeaks", "calculateStatistics")
        /\ (StepsOfRun \cap FitAndScoreSteps # {}) <=> Len(page.peaks) > 0
        /\ "calculateStatistics" \in StepsOfRun

(***************************************************************************)
(* Properties of ingestion.                                                *)
(***************************************************************************)
\* the cell is present, not empty or blank, and parses as a number
IsNumericCell(cell) ==
    /\ cell # Undefined
    /\ Trim(cell) # <<>>
    /\ ~IsNaN(Number(cell))

\* the row has two columns and numeric wavelength and intensity cells
IsValidRow(row) ==
    /\ Len(row) >= 2
    /\ IsNumericCell(row[1])
    /\ IsNumericCell(row[2])

\* the rows after the header row, which is a first row whose first cell is
\* not numeric
RowsAfterHeader ==
    IF Len(data) > 0 /\ ~IsNumericCell(CellAt(data[1], 1))
    THEN Tail(data) ELSE data

\* the number of points of d that equal p
Occurrences(d, p) == Cardinality({i \in 1..Len(d) : d[i] = p})

\* the number of valid rows among rows whose cells give the point p
ValidRowsGiving(rows, p) ==
    Cardinality({i \in 1..Len(rows) :
                    /\ IsValidRow(rows[i])
                    /\ Point(Number(rows[i][1]), Number(rows[i][2])) = p})

\* C25: parseSpectralData skips the first row iff its first cell does not
\* parse as a number, and returns, sorted ascending by wavelength, exactly the
\* remaining rows with at least 2 columns whose wavelength and intensity
\* cells are both numeric: a row with a missing, empty or non-numeric cell is
\* never turned into a point.  If no row survives it throws.
C25_ParseKeepsExactlyNumericRows ==
    call.fn = "parseSpectralData" =>
        LET rows == RowsAfterHeader
            valid == {i \in 1..Len(rows) : IsValidRow(rows[i])}
        IN  IF valid = {} THEN ret.threw
            ELSE /\ ~ret.threw
                 /\ Len(ret.value) = Cardinality(valid)
                 /\ \A i \in 1..Len(ret.value) :
                       Occurrences(ret.value, ret.value[i])
                          = ValidRowsGiving(rows, ret.value[i])
                 /\ \A i \in 1..(Len(ret.value) - 1) :
                       Le(ret.value[i].wavelength, ret.value[i + 1].wavelength)

(***************************************************************************)
(* Properties of the width and the area of a detected peak.                *)
(***************************************************************************)
\* the indices at which the called detectPeaks finds a peak
DetectedIndices ==
    {i \in 2..(Len(data) - 1) :
        /\ Gt(data[i].intensity, data[i - 1].intensity)
        /\ Gt(data[i].intensity, data[i + 1].intensity)
        /\ Ge(data[i].intensity, call.minHeight)
        /\ Ge(Sub(data[i].intensity,
                  MathMin(data[i - 1].intensity, data[i + 1].intensity)),
              call.prominence)}

\* the index of the k-th returned peak
IndexOfPeak(k) ==
    CHOOSE i \in DetectedIndices :
        Cardinality({j \in DetectedIndices : j < i}) = k - 1

\* the point at index j is at or below half the intensity of the peak at i
AtOrBelowHalfMax(j, i) ==
    Le(data[j].intensity, Div(data[i].intensity, R(2)))

\* the nearest index at or left of the peak at i that is at or below half-max,
\* and the first index when there is none
LeftStop(i) ==
    LET S == {j \in 1..i : j = 1 \/ AtOrBelowHalfMax(j, i)}
    IN  CHOOSE j \in S : \A m \in S : m <= j

\* the nearest index at or right of the peak at i that is at or below
\* half-max, and the last index when there is none
RightStop(i) ==
    LET S == {j \in i..Len(data) : j = Len(data) \/ AtOrBelowHalfMax(j, i)}
    IN  CHOOSE j \in S : \A m \in S : m >= j

\* C26: calculateFWHM makes one walk in each direction without interpolation:
\* from the peak index it moves left while the intensity is strictly above
\* half the peak intensity and stops at the first point at or below half-max
\* or at the first index, does the same to the right, stopping at the last
\* index at the latest, and returns the wavelength of the right stop minus
\* the wavelength of the left stop.
C26_FwhmBetweenFirstPointsAtHalfMax ==
    call.fn = "detectPeaks" =>
        /\ Len(ret.value) = Cardinality(DetectedIndices)
        /\ \A k \in 1..Len(ret.value) :
              ret.value[k].fwhm =
                  Sub(data[RightStop(IndexOfPeak(k))].wavelength,
                      data[LeftStop(IndexOfPeak(k))].wavelength)

\* a peak whose left walk stops after one step at a point below half-max
\* that is not the first point, and whose right walk moves two steps and
\* ends on the last point while still above half-max
C26_Witness ==
    /\ call.fn = "detectPeaks"
    /\ Len(ret.value) = 1
    /\ LET i == IndexOfPeak(1)
       IN  /\ LeftStop(i) = i - 1
           /\ LeftStop(i) > 1
           /\ RightStop(i) = i + 2
           /\ RightStop(i) = Len(data)
           /\ ~AtOrBelowHalfMax(Len(data), i)
           /\ Gt(ret.value[1].fwhm, Zero)

\* the indices of the points within the full width of the k-th returned peak
\* on each side of its position, both ends included
WindowOfPeak(k) ==
    {j \in 1..Len(data) :
        /\ Ge(data[j].wavelength,
              Sub(ret.value[k].position, ret.value[k].fwhm))
        /\ Le(data[j].wavelength,
              Add(ret.value[k].position, ret.value[k].fwhm))}

\* the points of that window, in spectrum order
WindowPoints(k) ==
    LET W == WindowOfPeak(k)
    IN  Tabulate(LAMBDA m :
            data[CHOOSE j \in W : Cardinality({i \in W : i < j}) = m - 1],
            Cardinality(W))

\* C27: the area of each detected peak is the trapezoidal integral over
\* exactly the spectrum points whose wavelength w satisfies
\* position - fwhm <= w <= position + fwhm, taken in spectrum order, and it
\* is 0 when fewer than 2 points fall in that window.
C27_PeakAreaOverFullWidthWindow ==
    call.fn = "detectPeaks" =>
        \A k \in 1..Len(ret.value) :
            /\ ret.value[k].area = TrapezoidArea(WindowPoints(k))
            /\ Cardinality(WindowOfPeak(k)) < 2 => ret.value[k].area = Zero

\* a peak whose window leaves out a point of the spectrum, holds a point
\* exactly at position - fwhm and a point beyond position + fwhm / 2, and has
\* an area other than 0
C27_Witness ==
    /\ call.fn = "detectPeaks"
    /\ \E k \in 1..Len(ret.value) :
          /\ Cardinality(WindowOfPeak(k)) >= 3
          /\ WindowOfPeak(k) # 1..Len(data)
          /\ \E j \in WindowOfPeak(k) :
                data[j].wavelength =
                    Sub(ret.value[k].position, ret.value[k].fwhm)
          /\ \E j \in WindowOfPeak(k) :
                Gt(data[j].wavelength,
                   Add(ret.value[k].position, Div(ret.value[k].fwhm, R(2))))
          /\ ret.value[k].area # Zero

\* a peak of width 0 whose window holds its own point alone has area 0
C27_WitnessSinglePoint ==
    /\ call.fn = "detectPeaks"
    /\ \E k \in 1..Len(ret.value) :
          /\ Cardinality(WindowOfPeak(k)) = 1
          /\ ret.value[k].area = Zero

\* C28: after any sequence of analysis runs with changing detection
\* parameters the displayed fitting result belongs to the latest detection:
\* whenever fittingResult is not null its peaks are the current peaks state,
\* and a run that detected zero peaks leaves no fitting result of an earlier
\* run on display, so that Continue is not enabled by a stale result.
C28_FittingResultOfLatestDetection ==
    page.mounted =>
        /\ page.fittingResult.present =>
              page.fittingResult.peaks = page.peaks
        /\ RunDetectedNoPeaks => ~ContinueEnabled(page)

(***************************************************************************)
(* Frame of the preprocessing pipeline.                                    *)
(***************************************************************************)
\* C29: preprocessing never invents, reorders or alters wavelengths: the
\* wavelength sequence of the output of preprocessSpectrum is a subsequence
\* of the input's, in the same order, and is identical to it when outlier
\* removal is disabled; an input sorted ascending by wavelength stays sorted.
C29_WavelengthsPreserved ==
    call.fn = "preprocessSpectrum" =>
        /\ ~ret.threw
        /\ IsSubsequence(Wavelengths(ret.value), Wavelengths(data))
        /\ ~(/\ call.params.outlier_removal.present
             /\ call.params.outlier_removal.enabled)
              => Wavelengths(ret.value) = Wavelengths(data)
        /\ \A i \in 1..(Len(ret.value) - 1) :
              Le(ret.value[i].wavelength, ret.value[i + 1].wavelength)

\* a run with all four stages enabled that dropped a point, kept points of
\* different wavelengths and changed an intensity to another finite value
C29_Witness ==
    /\ call.fn = "preprocessSpectrum"
    /\ call.params.outlier_removal.present
    /\ call.params.outlier_removal.enabled
    /\ call.params.noise_reduction.present
    /\ call.params.baseline_correction.present
    /\ call.params.baseline_correction.method = "polynomial"
    /\ call.params.normalization.present
    /\ Len(ret.value) < Len(data)
    /\ Len(ret.value) >= 2
    /\ ret.value[1].wavelength # ret.value[Len(ret.value)].wavelength
    /\ \A i \in 1..Len(ret.value) : IsFinite(ret.value[i].intensity)
    /\ ~IsSubsequence(ret.value, data)

\* a run with outlier removal disabled and the other stages enabled that
\* changed an intensity
C29_WitnessOutliersKept ==
    /\ call.fn = "preprocessSpectrum"
    /\ ~call.params.outlier_removal.present
    /\ call.params.noise_reduction.present
    /\ call.params.normalization.present
    /\ Len(data) >= 3
    /\ ret.value # data

\* the latest run has set the analyzing flag
RunSetAnalyzing == "setAnalyzing(true)" \in StepsOfRun

\* C30: every analysis run that sets the analyzing flag to true eventually
\* resets it to false, on every exit path: the early return on zero peaks, an
\* exception in detection, fitting or scoring, a rejected saveAnalysisResult,
\* or success.  A run on an empty spectrum never sets the flag, and the flag
\* is false whenever no run is in progress.
C30_AnalyzingEventuallyReset ==
    /\ [](page.mounted =>
            /\ ~page.pending.awaiting => ~page.analyzing
            /\ (RunSetAnalyzing /\ ~page.pending.awaiting) =>
                  page.steps[Len(page.steps)] = "setAnalyzing(false)"
            /\ Len(data) = 0 => ~RunSetAnalyzing)
    /\ (page.mounted /\ page.analyzing) ~> (page.mounted /\ ~page.analyzing)

\* a run has set the flag, awaited saveAnalysisResult, and reset the flag
\* after the save was rejected
C30_Witness ==
    /\ page.mounted
    /\ RunSetAnalyzing
    /\ "saveAnalysisResult" \in StepsOfRun
    /\ page.toasts = <<"Analysis failed">>
    /\ page.steps[Len(page.steps)] = "setAnalyzing(false)"
    /\ ~page.analyzing

\* a run is awaiting saveAnalysisResult with the flag set
C30_WitnessAwaiting ==
    /\ page.mounted
    /\ page.pending.awaiting
    /\ page.analyzing

====
